---- MODULE Spec2Model ----
(***************************************************************************)
(* A model of the Monkey interpreter's evaluator (src/src/eval.rs), its    *)
(* environments (src/src/env.rs) and its values (src/src/object.rs).       *)
(*                                                                         *)
(* The recursive functions of eval.rs are recursive operators that thread  *)
(* an evaluation state st = [heap, log, depth]:                            *)
(*   heap   the Rc<RefCell<Environment>> cells allocated so far; an Rc is  *)
(*          the index of its cell, and Option<Rc> is 0 for None;           *)
(*   log    a history of what the evaluator did (which node it entered,    *)
(*          what each evaluation returned, every Environment::get and set, *)
(*          every environment made for a call), kept for the properties;   *)
(*   depth  the number of apply_function calls on the native stack.        *)
(* Every operator returns [out, st]: out is Ok(value), Err(error) (the     *)
(* Result of the source) or Panic(message) (the Rust process aborts).      *)
(*                                                                         *)
(* The lexer (src/src/lexer.rs, src/src/token.rs) and the parser           *)
(* (src/src/parser.rs, src/src/ast.rs, src/src/operator.rs) are modelled   *)
(* on source texts that are sequences of one-character strings.            *)
(***************************************************************************)
EXTENDS Integers, Sequences, FiniteSets, TLC

VARIABLES program, pc, result, ret, heap, log, overflow_checks, infix,
          source, lexer, returned, parser, parsed, tree

\* the variables of the lexer and the parser
front == <<source, lexer, returned, parser, parsed, tree>>

vars == <<program, pc, result, ret, heap, log, overflow_checks, infix, front>>

(***************************************************************************)
(* Bounds of the model.                                                    *)
(***************************************************************************)
\* the longest program, in top-level statements
MaxStmts == 3
\* the deepest nesting of calls before the native stack is taken to overflow
MaxCallDepth == 8

(***************************************************************************)
(* i32 (object.rs: Integer(i32)).                                          *)
(***************************************************************************)
I32_MAX == 2147483647
I32_MIN == -I32_MAX - 1

Abs(n) == IF n < 0 THEN -n ELSE n

\* a + b leaves i32
add_overflows(a, b) ==
    \/ b > 0 /\ a > I32_MAX - b
    \/ b < 0 /\ a < I32_MIN - b

\* a + b modulo 2^32, computed without leaving i32
wrapping_add(a, b) ==
    IF b > 0 /\ a > I32_MAX - b THEN ((a - I32_MAX) + (b - I32_MAX)) - 2
    ELSE IF b < 0 /\ a < I32_MIN - b THEN (a - I32_MIN) + (b - I32_MIN)
    ELSE a + b

sub_overflows(a, b) ==
    \/ b < 0 /\ a > I32_MAX + b
    \/ b > 0 /\ a < I32_MIN + b

wrapping_sub(a, b) ==
    IF b < 0 /\ a > I32_MAX + b THEN ((a - I32_MAX) - (b - I32_MIN)) - 1
    ELSE IF b > 0 /\ a < I32_MIN + b THEN ((a - I32_MIN) - (b - I32_MAX)) + 1
    ELSE a - b

mul_overflows(a, b) ==
    IF a = 0 \/ b = 0 THEN FALSE
    ELSE IF a = -1 THEN b = I32_MIN
    ELSE IF b = -1 THEN a = I32_MIN
    ELSE IF a > 0 /\ b > 0 THEN a > I32_MAX \div b
    ELSE IF a > 0 /\ b < 0 THEN b < ((I32_MIN + a) - 1) \div a
    ELSE IF a < 0 /\ b > 0 THEN a < ((I32_MIN + b) - 1) \div b
    ELSE a = I32_MIN \/ b = I32_MIN \/ (-a) > I32_MAX \div (-b)

\* x * y modulo 2^16 for x, y in 0..65535, every intermediate below 2^31
mul_low16(x, y) == (((((x \div 256) * y) % 256) * 256) + ((x % 256) * y)) % 65536

\* a * b modulo 2^32, from the 16-bit halves of the two's complements of a and b
wrapping_mul(a, b) ==
    LET al == a % 65536
        ah == (a \div 65536) % 65536
        bl == b % 65536
        bh == (b \div 65536) % 65536
        t1 == (al \div 256) * bl
        t0 == (al % 256) * bl
        lo == (t0 + ((t1 % 256) * 256)) % 65536
        carry == (t1 \div 256) + ((((t1 % 256) * 256) + t0) \div 65536)
        hi == (carry + mul_low16(ah, bl) + mul_low16(al, bh)) % 65536
    IN  IF hi >= 32768 THEN ((hi - 65536) * 65536) + lo ELSE (hi * 65536) + lo

\* Rust's a / b for b # 0 and no overflow: the quotient truncated toward zero
truncating_div(a, b) ==
    IF a = I32_MIN
    THEN (IF b = 1 THEN a
          ELSE IF b > 0 THEN -(I32_MAX \div b) - (IF (I32_MAX % b) + 1 = b THEN 1 ELSE 0)
          ELSE IF b = I32_MIN THEN 1
          ELSE (I32_MAX \div (-b)) + (IF (I32_MAX % (-b)) + 1 = -b THEN 1 ELSE 0))
    ELSE IF b = I32_MIN THEN 0
    ELSE IF (a >= 0) = (b > 0) THEN Abs(a) \div Abs(b)
    ELSE -(Abs(a) \div Abs(b))

(***************************************************************************)
(* Results.                                                                *)
(***************************************************************************)
Ok(v) == [tag |-> "Ok", val |-> v]
Err(e) == [tag |-> "Err", err |-> e]
Panic(m) == [tag |-> "Panic", msg |-> m]

None == [some |-> FALSE]
Some(x) == [some |-> TRUE, val |-> x]

(***************************************************************************)
(* error.rs: MonkeyError (the runtime errors).                             *)
(***************************************************************************)
TypeMismatch(l, op, r) == [error |-> "TypeMismatch", left |-> l, op |-> op, right |-> r]
UnknownOperator(l, op, r) == [error |-> "UnknownOperator", left |-> l, op |-> op, right |-> r]
IdentifierNotFound(name) == [error |-> "IdentifierNotFound", name |-> name]
IncorrectNumberOfArgs(expected, got) ==
    [error |-> "IncorrectNumberOfArgs", expected |-> expected, got |-> got]

(***************************************************************************)
(* ast.rs: Statement and Expression.                                       *)
(***************************************************************************)
StmtLet(ident, value) == [type |-> "Let", ident |-> ident, value |-> value]
StmtReturn(value) == [type |-> "Return", value |-> value]
StmtExpression(value) == [type |-> "Expression", value |-> value]
StmtBlock(statements) == [type |-> "Block", statements |-> statements]

ExprIdent(name) == [type |-> "Ident", name |-> name]
ExprString(s) == [type |-> "String", str |-> s]
ExprInteger(n) == [type |-> "Integer", int |-> n]
ExprBool(b) == [type |-> "Bool", bool |-> b]
ExprPrefix(op, right) == [type |-> "Prefix", op |-> op, right |-> right]
ExprInfix(op, left, right) == [type |-> "Infix", op |-> op, left |-> left, right |-> right]
ExprIf(condition, consequence, alternative) ==
    [type |-> "If", condition |-> condition, consequence |-> consequence,
     alternative |-> alternative]
ExprFunction(parameters, body) ==
    [type |-> "Function", parameters |-> parameters, body |-> body]
ExprCall(function, arguments) ==
    [type |-> "Call", function |-> function, arguments |-> arguments]

\* operator.rs: Infix
InfixOps == {"+", "-", "*", "/", "==", "!=", "<", ">"}

(***************************************************************************)
(* object.rs: Object.                                                      *)
(***************************************************************************)
ObjString(s) == [kind |-> "String", str |-> s]
ObjInteger(n) == [kind |-> "Integer", int |-> n]
ObjBool(b) == [kind |-> "Bool", bool |-> b]
ObjNull == [kind |-> "Null"]
ObjReturnValue(v) == [kind |-> "ReturnValue", value |-> v]
ObjFunction(parameters, body, env) ==
    [kind |-> "Function", parameters |-> parameters, body |-> body, env |-> env]

\* is_truthy with the integer 0 falsy as well
is_truthy_zero_falsy(obj) ==
    IF obj.kind = "Null" THEN FALSE
    ELSE IF obj.kind = "Bool" THEN obj.bool
    ELSE IF obj.kind = "Integer" THEN obj.int # 0
    ELSE TRUE

is_truthy(obj) ==
    IF obj.kind = "Null" THEN FALSE
    ELSE IF obj.kind = "Bool" THEN obj.bool
    ELSE TRUE

(***************************************************************************)
(* env.rs: Environment {store, host}.                                      *)
(***************************************************************************)
EmptyStore == [k \in {} |-> ObjNull]

Environment_new == [store |-> EmptyStore, host |-> 0]

\* virtual_environment that drops the host: the closure is cut off from the
\* scope that defines it
virtual_environment_detached(host) == [store |-> EmptyStore, host |-> 0]

virtual_environment(host) == [store |-> EmptyStore, host |-> host]

\* get that looks in the store of env only
Environment_get_local(h, env, key) ==
    IF key \in DOMAIN env.store THEN Some(env.store[key]) ELSE None

RECURSIVE Environment_get(_, _, _)
Environment_get(h, env, key) ==
    IF key \in DOMAIN env.store THEN Some(env.store[key])
    ELSE IF env.host # 0 THEN Environment_get(h, h[env.host], key)
    ELSE None

Environment_set(env, key, value) ==
    [env EXCEPT !.store = [k \in (DOMAIN env.store) \cup {key} |->
                              IF k = key THEN value ELSE env.store[k]]]

(***************************************************************************)
(* The history.                                                            *)
(***************************************************************************)
Logged(st, e) == [st EXCEPT !.log = Append(@, e)]

Enter(st, fn, cur, node) ==
    Logged(st, [ev |-> "enter", fn |-> fn, env |-> cur, node |-> node])

Exit(fn, cur, node, out) ==
    [ev |-> "exit", fn |-> fn, env |-> cur, node |-> node, out |-> out]

(***************************************************************************)
(* eval.rs: Evaluator {env: Rc<RefCell<Environment>>}; cur is self.env.    *)
(***************************************************************************)
Evaluator_get(cur, key, st) ==
    LET found == Environment_get(st.heap, st.heap[cur], key)
    IN  [out |-> found,
         st |-> Logged(st, [ev |-> "get", env |-> cur, name |-> key, found |-> found])]

\* set that writes to the outer environment when there is one
Evaluator_set_outer(cur, key, value, st) ==
    LET target == IF st.heap[cur].host # 0 THEN st.heap[cur].host ELSE cur
    IN  Logged([st EXCEPT !.heap[target] = Environment_set(@, key, value)],
               [ev |-> "set", env |-> target, name |-> key, value |-> value])

Evaluator_set(cur, key, value, st) ==
    Logged([st EXCEPT !.heap[cur] = Environment_set(@, key, value)],
           [ev |-> "set", env |-> cur, name |-> key, value |-> value])

\* Evaluator::from(env): a new Rc cell holding env
Evaluator_from(env, st) ==
    Logged([st EXCEPT !.heap = Append(@, env)],
           [ev |-> "from", env |-> Len(st.heap) + 1, host |-> env.host])

eval_prefix_expression(op, right) ==
    IF op = "!"
    THEN (IF right.kind = "Bool" THEN Ok(ObjBool(~right.bool))
          ELSE IF right.kind = "Null" THEN Ok(ObjBool(TRUE))
          ELSE Ok(ObjBool(FALSE)))
    ELSE (IF right.kind = "Integer"
          THEN (IF right.int = I32_MIN
                THEN (IF overflow_checks THEN Panic("attempt to negate with overflow")
                      ELSE Ok(ObjInteger(I32_MIN)))
                ELSE Ok(ObjInteger(-right.int)))
          ELSE Ok(ObjNull))

eval_infix_integer(op, l, r) ==
    CASE op = "+" -> IF add_overflows(l, r) /\ overflow_checks
                     THEN Panic("attempt to add with overflow")
                     ELSE Ok(ObjInteger(wrapping_add(l, r)))
      [] op = "-" -> IF sub_overflows(l, r) /\ overflow_checks
                     THEN Panic("attempt to subtract with overflow")
                     ELSE Ok(ObjInteger(wrapping_sub(l, r)))
      [] op = "*" -> IF mul_overflows(l, r) /\ overflow_checks
                     THEN Panic("attempt to multiply with overflow")
                     ELSE Ok(ObjInteger(IF mul_overflows(l, r) THEN wrapping_mul(l, r)
                                        ELSE l * r))
      [] op = "/" -> IF r = 0 THEN Panic("attempt to divide by zero")
                     ELSE IF l = I32_MIN /\ r = -1
                     THEN Panic("attempt to divide with overflow")
                     ELSE Ok(ObjInteger(truncating_div(l, r)))
      [] op = "==" -> Ok(ObjBool(l = r))
      [] op = "!=" -> Ok(ObjBool(l # r))
      [] op = "<" -> Ok(ObjBool(l < r))
      [] op = ">" -> Ok(ObjBool(l > r))

\* eval_infix_expression reporting the kinds of an Integer-Bool mismatch in the
\* order of the Bool-Integer arm
eval_infix_expression_swapped(op, left, right) ==
    IF left.kind = "Integer" /\ right.kind = "Integer"
    THEN eval_infix_integer(op, left.int, right.int)
    ELSE IF left.kind = "Bool" /\ right.kind = "Bool"
    THEN (IF op = "==" THEN Ok(ObjBool(left.bool = right.bool))
          ELSE IF op = "!=" THEN Ok(ObjBool(left.bool # right.bool))
          ELSE Err(UnknownOperator("Bool", op, "Bool")))
    ELSE IF left.kind = "Integer" /\ right.kind = "Bool"
    THEN Err(TypeMismatch("Bool", op, "Integer"))
    ELSE IF left.kind = "Bool" /\ right.kind = "Integer"
    THEN Err(TypeMismatch("Bool", op, "Integer"))
    ELSE Ok(ObjNull)

eval_infix_expression(op, left, right) ==
    IF left.kind = "Integer" /\ right.kind = "Integer"
    THEN eval_infix_integer(op, left.int, right.int)
    ELSE IF left.kind = "Bool" /\ right.kind = "Bool"
    THEN (IF op = "==" THEN Ok(ObjBool(left.bool = right.bool))
          ELSE IF op = "!=" THEN Ok(ObjBool(left.bool # right.bool))
          ELSE Err(UnknownOperator("Bool", op, "Bool")))
    ELSE IF left.kind = "Integer" /\ right.kind = "Bool"
    THEN Err(TypeMismatch("Integer", op, "Bool"))
    ELSE IF left.kind = "Bool" /\ right.kind = "Integer"
    THEN Err(TypeMismatch("Bool", op, "Integer"))
    ELSE Ok(ObjNull)

RECURSIVE eval_statement(_, _, _)
RECURSIVE eval_block_upto(_, _, _, _)
RECURSIVE eval_expressions_from(_, _, _, _, _)
RECURSIVE eval_expression(_, _, _)
RECURSIVE apply_function(_, _, _)

\* the loop of eval_block_statement, going on to the next statement after an error
eval_block_upto_past_errors(cur, stmts, k, st) ==
    LET prev == eval_block_upto(cur, stmts, k - 1, st)
    IN  CASE k = 0 -> [out |-> Ok(ObjNull), st |-> st]
          [] k > 0 /\ prev.out.tag = "Ok" /\ prev.out.val.kind = "ReturnValue" -> prev
          [] OTHER -> eval_statement(cur, stmts[k], prev.st)

\* the loop of eval_block_statement up to and including its k-th iteration:
\* what the loop has returned if it has, and else the value of result
eval_block_upto(cur, stmts, k, st) ==
    LET prev == eval_block_upto(cur, stmts, k - 1, st)
    IN  CASE k = 0 -> [out |-> Ok(ObjNull), st |-> st]
          [] k > 0 /\ prev.out.tag # "Ok" -> prev
          [] k > 0 /\ prev.out.tag = "Ok" /\ prev.out.val.kind = "ReturnValue" -> prev
          [] OTHER -> eval_statement(cur, stmts[k], prev.st)

\* the loop of eval_expressions from its i-th expression on
eval_expressions_from(cur, exprs, i, acc, st) ==
    IF i > Len(exprs) THEN [out |-> Ok(acc), st |-> st]
    ELSE LET r == eval_expression(cur, exprs[i], st)
         IN  IF r.out.tag # "Ok" THEN r
             ELSE eval_expressions_from(cur, exprs, i + 1, Append(acc, r.out.val), r.st)

eval_expressions(cur, exprs, st) == eval_expressions_from(cur, exprs, 1, <<>>, st)

eval_statement(cur, stmt, st) ==
    LET s0 == Enter(st, "eval_statement", cur, stmt)
        r == CASE stmt.type = "Expression" -> eval_expression(cur, stmt.value, s0)
               [] stmt.type = "Block" ->
                    eval_block_upto(cur, stmt.statements, Len(stmt.statements), s0)
               [] stmt.type = "Return" ->
                    LET o == eval_expression(cur, stmt.value, s0)
                    IN  IF o.out.tag # "Ok" THEN o
                        ELSE [out |-> Ok(ObjReturnValue(o.out.val)), st |-> o.st]
               [] stmt.type = "Let" ->
                    IF stmt.ident.type = "Ident"
                    THEN LET o == eval_expression(cur, stmt.value, s0)
                         IN  IF o.out.tag # "Ok" THEN o
                             ELSE [out |-> Ok(ObjNull),
                                   st |-> Evaluator_set(cur, stmt.ident.name, o.out.val, o.st)]
                    ELSE [out |-> Panic("unreachable"), st |-> s0]
    IN  [r EXCEPT !.st = Logged(@, Exit("eval_statement", cur, stmt, r.out))]

\* eval_expression, Ident, with a miss read as Null
eval_identifier_null_on_miss(cur, expr, st) ==
    LET g == Evaluator_get(cur, expr.name, st)
    IN  IF g.out.some THEN [out |-> Ok(g.out.val), st |-> g.st]
        ELSE [out |-> Ok(ObjNull), st |-> g.st]

\* eval_expression, Ident
eval_identifier(cur, expr, st) ==
    LET g == Evaluator_get(cur, expr.name, st)
    IN  IF g.out.some THEN [out |-> Ok(g.out.val), st |-> g.st]
        ELSE [out |-> Err(IdentifierNotFound(expr.name)), st |-> g.st]

\* eval_expression, Function, capturing a copy of self.env instead of sharing it
eval_function_literal_by_copy(cur, expr, st) ==
    [out |-> Ok(ObjFunction(expr.parameters, expr.body,
                            virtual_environment(Len(st.heap) + 1))),
     st |-> [st EXCEPT !.heap = Append(@, st.heap[cur])]]

\* eval_expression, Function: the closure's environment is a new Environment
\* whose host is self.env
eval_function_literal(cur, expr, st) ==
    [out |-> Ok(ObjFunction(expr.parameters, expr.body, virtual_environment(cur))),
     st |-> st]

\* eval_expression, Call
eval_call(cur, expr, st) ==
    LET a == eval_expressions(cur, expr.arguments, st)
        puts == expr.function.type = "Ident" /\ expr.function.name = "puts"
        f == eval_expression(cur, expr.function, a.st)
    IN  CASE a.out.tag # "Ok" -> a
          [] a.out.tag = "Ok" /\ puts ->
                [out |-> Ok(ObjNull),
                 st |-> Logged(a.st, [ev |-> "println", args |-> a.out.val])]
          [] a.out.tag = "Ok" /\ ~puts /\ f.out.tag # "Ok" -> f
          [] OTHER -> apply_function(f.out.val, a.out.val, f.st)

eval_expression(cur, expr, st) ==
    LET s0 == Enter(st, "eval_expression", cur, expr)
        r == CASE expr.type = "String" -> [out |-> Ok(ObjString(expr.str)), st |-> s0]
               [] expr.type = "Integer" -> [out |-> Ok(ObjInteger(expr.int)), st |-> s0]
               [] expr.type = "Bool" -> [out |-> Ok(ObjBool(expr.bool)), st |-> s0]
               [] expr.type = "Prefix" ->
                    LET o == eval_expression(cur, expr.right, s0)
                    IN  IF o.out.tag # "Ok" THEN o
                        ELSE [out |-> eval_prefix_expression(expr.op, o.out.val), st |-> o.st]
               [] expr.type = "Infix" ->
                    LET l == eval_expression(cur, expr.left, s0)
                        o == eval_expression(cur, expr.right, l.st)
                    IN  CASE l.out.tag # "Ok" -> l
                          [] l.out.tag = "Ok" /\ o.out.tag # "Ok" -> o
                          [] OTHER -> [out |-> eval_infix_expression(expr.op, l.out.val,
                                                                     o.out.val),
                                       st |-> o.st]
               [] expr.type = "If" ->
                    LET c == eval_expression(cur, expr.condition, s0)
                    IN  IF c.out.tag # "Ok" THEN c
                        ELSE IF is_truthy(c.out.val)
                        THEN eval_statement(cur, expr.consequence, c.st)
                        ELSE IF expr.alternative.some
                        THEN eval_statement(cur, expr.alternative.val, c.st)
                        ELSE [out |-> Ok(ObjNull), st |-> c.st]
               [] expr.type = "Ident" -> eval_identifier(cur, expr, s0)
               [] expr.type = "Function" -> eval_function_literal(cur, expr, s0)
               [] expr.type = "Call" -> eval_call(cur, expr, s0)
    IN  [r EXCEPT !.st = Logged(@, Exit("eval_expression", cur, expr, r.out))]

\* the loop of apply_function that binds parameters[i..] to args[i..]
RECURSIVE bind_parameters(_, _, _, _, _)
bind_parameters(env, parameters, args, i, st) ==
    IF i > Len(parameters) \/ i > Len(args) THEN st
    ELSE bind_parameters(env, parameters, args, i + 1,
             IF parameters[i].type = "Ident"
             THEN Evaluator_set(env, parameters[i].name, args[i], st)
             ELSE st)

\* apply_function, lines 186-191: the state in which the body is evaluated, in
\* the new cell made from the environment captured, the parameters bound in it
call_state(captured, function, args, st) ==
    bind_parameters(Len(st.heap) + 1, function.parameters, args, 1,
                    Evaluator_from(captured, [st EXCEPT !.depth = @ + 1]))

\* apply_function, lines 192-195: the value of the body, out of its ReturnValue
unwrap_return(out) ==
    IF out.tag = "Ok" /\ out.val.kind = "ReturnValue" THEN Ok(out.val.value) ELSE out

\* apply_function with dynamic scoping: the environment of the call hangs off the
\* environment of the caller (the one that has just evaluated the callee)
apply_function_dynamic(function, args, st0) ==
    LET st == Logged(st0, [ev |-> "apply", function |-> function, args |-> args])
        r == eval_statement(Len(st.heap) + 1, function.body,
                            call_state(virtual_environment(st0.log[Len(st0.log)].env),
                                       function, args, st))
    IN  CASE function.kind # "Function" -> [out |-> Panic("unreachable"), st |-> st]
          [] function.kind = "Function" /\ Len(function.parameters) # Len(args) ->
                [out |-> Err(IncorrectNumberOfArgs(Len(function.parameters), Len(args))),
                 st |-> st]
          [] function.kind = "Function" /\ Len(function.parameters) = Len(args)
                /\ st.depth >= MaxCallDepth ->
                [out |-> Panic("stack overflow"), st |-> st]
          [] OTHER -> [r EXCEPT !.out = unwrap_return(@), !.st.depth = st.depth]

\* apply_function without the check of the argument count: zip binds the
\* parameters that have an argument
apply_function_zip(function, args, st0) ==
    LET st == Logged(st0, [ev |-> "apply", function |-> function, args |-> args])
        r == eval_statement(Len(st.heap) + 1, function.body,
                            call_state(function.env, function, args, st))
    IN  CASE function.kind # "Function" -> [out |-> Panic("unreachable"), st |-> st]
          [] function.kind = "Function" /\ st.depth >= MaxCallDepth ->
                [out |-> Panic("stack overflow"), st |-> st]
          [] OTHER -> [r EXCEPT !.out = unwrap_return(@), !.st.depth = st.depth]

\* apply_function.  The native stack is taken to overflow at MaxCallDepth
\* nested calls.
apply_function(function, args, st0) ==
    LET st == Logged(st0, [ev |-> "apply", function |-> function, args |-> args])
        r == eval_statement(Len(st.heap) + 1, function.body,
                            call_state(function.env, function, args, st))
    IN  CASE function.kind # "Function" -> [out |-> Panic("unreachable"), st |-> st]
          [] function.kind = "Function" /\ Len(function.parameters) # Len(args) ->
                [out |-> Err(IncorrectNumberOfArgs(Len(function.parameters), Len(args))),
                 st |-> st]
          [] function.kind = "Function" /\ Len(function.parameters) = Len(args)
                /\ st.depth >= MaxCallDepth ->
                [out |-> Panic("stack overflow"), st |-> st]
          [] OTHER -> [r EXCEPT !.out = unwrap_return(@), !.st.depth = st.depth]

(***************************************************************************)
(* The programs evaluated: every sequence of at most MaxStmts top-level    *)
(* statements drawn from one of the statement pools below.  Each statement *)
(* is a tree Parser::parse_program returns for the text in its comment     *)
(* (function bodies and branches are Blocks, parameters are Idents).       *)
(***************************************************************************)
Id(name) == ExprIdent(name)
Lit(n) == ExprInteger(n)
E(expr) == StmtExpression(expr)
Fn(parameters, stmts) == ExprFunction(parameters, StmtBlock(stmts))
IfThen(c, stmts) == ExprIf(c, StmtBlock(stmts), None)
IfElse(c, stmts, alts) == ExprIf(c, StmtBlock(stmts), Some(StmtBlock(alts)))
Call(f, args) == ExprCall(f, args)

ScopePool ==
    { StmtLet(Id("a"), Lit(1)),                               \* let a = 1;
      StmtLet(Id("a"), Lit(2)),                               \* let a = 2;
      StmtLet(Id("f"), Fn(<<>>, <<E(Id("a"))>>)),             \* let f = fn() { a };
      E(Call(Id("f"), <<>>)),                                 \* f();
      E(Call(Fn(<<Id("a")>>, <<E(Call(Id("f"), <<>>))>>),     \* fn(a) { f() }(5);
             <<Lit(5)>>)),
      \* fn(x) { let g = fn() { x }; let x = 7; g() }(6);
      E(Call(Fn(<<Id("x")>>, <<StmtLet(Id("g"), Fn(<<>>, <<E(Id("x"))>>)),
                               StmtLet(Id("x"), Lit(7)),
                               E(Call(Id("g"), <<>>))>>),
             <<Lit(6)>>)),
      E(Id("a")) }                                            \* a;

ReturnPool ==
    { StmtReturn(Lit(1)),                                     \* return 1;
      E(Lit(2)),                                              \* 2;
      StmtLet(Id("a"), Lit(3)),                               \* let a = 3;
      \* if (true) { if (true) { return 4; } return 5; }
      E(IfThen(ExprBool(TRUE), <<E(IfThen(ExprBool(TRUE), <<StmtReturn(Lit(4))>>)),
                                 StmtReturn(Lit(5))>>)),
      \* fn() { if (true) { return 6; } 7 }();
      E(Call(Fn(<<>>, <<E(IfThen(ExprBool(TRUE), <<StmtReturn(Lit(6))>>)), E(Lit(7))>>),
             <<>>)),
      E(Id("a")) }                                            \* a;

WrapPool ==
    { \* return if (true) { return 8; };
      StmtReturn(IfThen(ExprBool(TRUE), <<StmtReturn(Lit(8))>>)),
      \* fn() { return if (true) { return 9; }; }();
      E(Call(Fn(<<>>, <<StmtReturn(IfThen(ExprBool(TRUE), <<StmtReturn(Lit(9))>>))>>),
             <<>>)),
      \* let a = if (true) { return 1; };
      StmtLet(Id("a"), IfThen(ExprBool(TRUE), <<StmtReturn(Lit(1))>>)),
      \* fn() { let x = if (true) { return 1; }; 2 }();
      E(Call(Fn(<<>>, <<StmtLet(Id("x"), IfThen(ExprBool(TRUE), <<StmtReturn(Lit(1))>>)),
                        E(Lit(2))>>),
             <<>>)),
      \* !if (true) { return 1; };
      E(ExprPrefix("!", IfThen(ExprBool(TRUE), <<StmtReturn(Lit(1))>>))),
      \* fn(x) { x }(if (true) { return 1; });
      E(Call(Fn(<<Id("x")>>, <<E(Id("x"))>>),
             <<IfThen(ExprBool(TRUE), <<StmtReturn(Lit(1))>>)>>)),
      E(Lit(3)),                                              \* 3;
      E(Id("a")) }                                            \* a;

ErrorPool ==
    { E(Id("u")),                                             \* u;
      StmtLet(Id("a"), Id("u")),                              \* let a = u;
      StmtLet(Id("a"), Lit(1)),                               \* let a = 1;
      E(Id("a")),                                             \* a;
      E(ExprInfix("+", ExprBool(TRUE), Id("a"))),             \* true + a;
      E(ExprInfix("<", ExprBool(TRUE), ExprBool(FALSE))),     \* true < false;
      \* if (a == 1) { u; 2 } else { 3 }
      E(IfElse(ExprInfix("==", Id("a"), Lit(1)), <<E(Id("u")), E(Lit(2))>>, <<E(Lit(3))>>)) }

CallPool ==
    { StmtLet(Id("f"), Fn(<<Id("x")>>, <<StmtLet(Id("a"), Lit(1)), E(Id("x"))>>)),
                                                              \* let f = fn(x) { let a = 1; x };
      E(Call(Id("f"), <<Lit(1), Lit(2)>>)),                   \* f(1, 2);
      E(Call(Id("f"), <<>>)),                                 \* f();
      E(Call(Id("f"), <<Lit(1)>>)),                           \* f(1);
      E(Call(Id("puts"), <<Lit(1)>>)),                        \* puts(1);
      E(Call(Id("u"), <<Id("w")>>)),                          \* u(w);
      E(Call(Id("f"), <<Id("u"), Call(Id("f"), <<>>)>>)),     \* f(u, f());
      StmtLet(Id("puts"), Fn(<<Id("x")>>, <<E(Id("x"))>>)),   \* let puts = fn(x) { x };
      E(Id("a")) }                                            \* a;

CrashPool ==
    { E(ExprInfix("/", Lit(1), Lit(0))),                      \* 1 / 0;
      E(ExprInfix("/", Lit(7), ExprPrefix("-", Lit(2)))),     \* 7 / -2;
      E(ExprInfix("+", Lit(I32_MAX), Lit(1))),                \* 2147483647 + 1;
      E(Call(Lit(5), <<Lit(1)>>)),                            \* 5(1);
      StmtLet(Id("r"), Fn(<<>>, <<E(Call(Id("r"), <<>>))>>)), \* let r = fn() { r() };
      E(Call(Id("r"), <<>>)),                                 \* r();
      StmtLet(Id("r"), Lit(5)),                               \* let r = 5;
      E(Lit(3)) }                                             \* 3;

BranchPool ==
    { E(IfElse(Lit(0), <<E(Lit(1))>>, <<E(Lit(2))>>)),        \* if (0) { 1 } else { 2 }
      E(IfThen(ExprString(""), <<E(Lit(1))>>)),               \* if ("") { 1 }
      E(IfThen(ExprBool(FALSE), <<E(Lit(1))>>)),              \* if (false) { 1 }
      \* if (if (false) { 1 }) { u } else { 2 }
      E(IfElse(IfThen(ExprBool(FALSE), <<E(Lit(1))>>), <<E(Id("u"))>>, <<E(Lit(2))>>)),
      \* if (fn() { }) { 4 } else { u }
      E(IfElse(Fn(<<>>, <<>>), <<E(Lit(4))>>, <<E(Id("u"))>>)),
      \* if (1 < 2) { if (u) { 5 } }
      E(IfThen(ExprInfix("<", Lit(1), Lit(2)), <<E(IfThen(Id("u"), <<E(Lit(5))>>))>>)) }

FramePool ==
    { \* let f = fn(x) { x + 2; };
      StmtLet(Id("f"), Fn(<<Id("x")>>, <<E(ExprInfix("+", Id("x"), Lit(2)))>>)),
      StmtLet(Id("x"), Lit(3)),                               \* let x = 3;
      E(Call(Id("f"), <<Lit(0)>>)),                           \* f(0);
      E(Id("x")),                                             \* x;
      \* let g = fn() { let x = 9; let f = 8; x };
      StmtLet(Id("g"), Fn(<<>>, <<StmtLet(Id("x"), Lit(9)), StmtLet(Id("f"), Lit(8)),
                                  E(Id("x"))>>)),
      E(Call(Id("g"), <<>>)) }                                \* g();

Pools == {ScopePool, ReturnPool, WrapPool, ErrorPool, CallPool, CrashPool, BranchPool,
          FramePool}

SeqsUpTo(S, n) == UNION {[1..k -> S] : k \in 0..n}

Programs == UNION {SeqsUpTo(P, MaxStmts) : P \in Pools}

(***************************************************************************)
(* lib.rs: evaluate.  Evaluator::new() and the loop of Evaluator::eval,    *)
(* one statement per step: pc is the position of `for stmt in ...`, result *)
(* the local of that name and ret what eval has returned.                  *)
(***************************************************************************)
Running == [tag |-> "Running"]

Idle == [applied |-> FALSE]

\* no lexer and no parser: the program is given as a tree
Off == [on |-> FALSE]

FrontIdle ==
    /\ source = <<>>
    /\ lexer = Off
    /\ returned = <<>>
    /\ parser = Off
    /\ parsed = Off
    /\ tree = Off

Init ==
    /\ program \in Programs
    /\ pc = 1
    /\ result = ObjNull
    /\ ret = Running
    /\ heap = <<Environment_new>>
    /\ log = <<>>
    /\ overflow_checks \in BOOLEAN
    /\ infix = Idle
    /\ FrontIdle

\* the state eval_statement starts from in an iteration of the loop
StepState == [heap |-> heap, log |-> Append(log, [ev |-> "eval", index |-> pc]), depth |-> 0]

\* an iteration of the loop of Evaluator::eval that does not look for a ReturnValue
EvalStep_no_return ==
    /\ ret = Running
    /\ pc <= Len(program)
    /\ LET r == eval_statement(1, program[pc], StepState)
       IN  /\ heap' = r.st.heap
           /\ log' = r.st.log
           /\ pc' = pc + 1
           /\ IF r.out.tag # "Ok"
              THEN ret' = r.out /\ result' = result
              ELSE result' = r.out.val /\ ret' = ret
    /\ UNCHANGED <<program, overflow_checks, infix, front>>

\* one iteration of the loop of Evaluator::eval
EvalStep ==
    /\ ret = Running
    /\ pc <= Len(program)
    /\ LET r == eval_statement(1, program[pc], StepState)
       IN  /\ heap' = r.st.heap
           /\ log' = r.st.log
           /\ pc' = pc + 1
           /\ IF r.out.tag # "Ok"
              THEN ret' = r.out /\ result' = result
              ELSE /\ result' = r.out.val
                   /\ ret' = IF r.out.val.kind = "ReturnValue"
                             THEN Ok(r.out.val.value)
                             ELSE ret
    /\ UNCHANGED <<program, overflow_checks, infix, front>>

\* the end of the loop of Evaluator::eval: Ok(result)
EvalEnd ==
    /\ ret = Running
    /\ pc > Len(program)
    /\ ret' = Ok(result)
    /\ UNCHANGED <<program, pc, result, heap, log, overflow_checks, infix, front>>

Next == EvalStep \/ EvalEnd

Spec == Init /\ [][Next]_vars

(***************************************************************************)
(* tests/fibonacci.rs: evaluate on the text INPUT, which binds phi and     *)
(* calls it on a number; here the program calls it once or twice, on       *)
(* numbers up to MaxFib.  The loop of Evaluator::eval runs to its end.     *)
(***************************************************************************)
MaxFib == 7

\* if (n == k) { return 1; }
PhiBase(k) == E(IfThen(ExprInfix("==", Id("n"), Lit(k)), <<StmtReturn(Lit(1))>>))

\* phi(n-k)
PhiRec(k) == Call(Id("phi"), <<ExprInfix("-", Id("n"), Lit(k))>>)

\* let phi = fn(n) { if (n == 0) { return 1; } if (n == 1) { return 1; } phi(n-1) + phi(n-2); };
PhiLet ==
    StmtLet(Id("phi"), Fn(<<Id("n")>>, <<PhiBase(0), PhiBase(1),
                                         E(ExprInfix("+", PhiRec(1), PhiRec(2)))>>))

\* phi(NUMBER);
PhiCall(number) == E(Call(Id("phi"), <<Lit(number)>>))

FibPrograms ==
    {<<PhiLet>> \o calls : calls \in UNION {[1..k -> {PhiCall(n) : n \in 0..MaxFib}] : k \in 1..2}}

InitFib ==
    /\ program \in FibPrograms
    /\ pc = 1
    /\ result = ObjNull
    /\ ret = Running
    /\ heap = <<Environment_new>>
    /\ log = <<>>
    /\ overflow_checks \in BOOLEAN
    /\ infix = Idle
    /\ FrontIdle

\* evaluate is one sequential loop that nothing stops: weak fairness of Next,
\* WF_vars(Next), written out with ENABLED <<Next>>_vars, which is ret = Running
\* (a step of the loop is possible exactly until eval has returned, and every
\* step changes pc or ret)
FairNext == []<>(ret # Running) \/ []<><<Next>>_vars

SpecFib == InitFib /\ [][Next]_vars /\ FairNext

(***************************************************************************)
(* eval_infix_expression on its own: an operator and two operands are      *)
(* drawn and the function is applied to them.                              *)
(***************************************************************************)
\* the integer operands are -MaxOperand..MaxOperand and the two ends of i32
MaxOperand == 2

IntegerOperands == (-MaxOperand..MaxOperand) \cup {I32_MIN, I32_MAX}

Operands ==
    {ObjInteger(n) : n \in IntegerOperands}
    \cup {ObjBool(TRUE), ObjBool(FALSE), ObjString(""), ObjString("a"), ObjNull,
          ObjReturnValue(ObjInteger(1)),
          ObjFunction(<<>>, StmtBlock(<<>>), virtual_environment(1))}

InitInfix ==
    /\ program = <<>>
    /\ pc = 1
    /\ result = ObjNull
    /\ ret = Running
    /\ heap = <<Environment_new>>
    /\ log = <<>>
    /\ overflow_checks \in BOOLEAN
    /\ \E op \in InfixOps : \E left \in Operands : \E right \in Operands :
          infix = [applied |-> FALSE, op |-> op, left |-> left, right |-> right]
    /\ FrontIdle

ApplyInfix ==
    /\ ~infix.applied
    /\ infix' = [applied |-> TRUE, op |-> infix.op, left |-> infix.left,
                 right |-> infix.right,
                 out |-> eval_infix_expression(infix.op, infix.left, infix.right)]
    /\ UNCHANGED <<program, pc, result, ret, heap, log, overflow_checks, front>>

NextInfix == ApplyInfix

SpecInfix == InitInfix /\ [][NextInfix]_vars

(***************************************************************************)
(* token.rs: Token.  A String is the sequence of its chars, and a char is  *)
(* a one-character string; NUL is '\u{0}' and EAcute a letter outside      *)
(* ASCII.                                                                  *)
(***************************************************************************)
NUL == "U+0000"
EAcute == "U+00E9"

Tok(type) == [type |-> type]
TokIdent(ident) == [type |-> "Ident", ident |-> ident]
TokInteger(n) == [type |-> "Integer", int |-> n]
TokString(str) == [type |-> "String", str |-> str]

\* number.parse().unwrap() on an Err: the process aborts, no Token is returned
ParseIntPanic == [type |-> "<panic>", msg |-> "ParseIntError"]

Token_keyword(ident) ==
    CASE ident = <<"f", "n">> -> Some(Tok("Function"))
      [] ident = <<"l", "e", "t">> -> Some(Tok("Let"))
      [] ident = <<"t", "r", "u", "e">> -> Some(Tok("True"))
      [] ident = <<"f", "a", "l", "s", "e">> -> Some(Tok("False"))
      [] ident = <<"i", "f">> -> Some(Tok("If"))
      [] ident = <<"e", "l", "s", "e">> -> Some(Tok("Else"))
      [] ident = <<"r", "e", "t", "u", "r", "n">> -> Some(Tok("Return"))
      [] OTHER -> None

\* operator.rs: Precedence, in its derived order
Lowest == 0
Equals == 1
LessGreater == 2
Sum == 3
Product == 4
Prefix == 5
CallPrecedence == 6

\* Token::precedence with + and - as high as * and /
Token_precedence_flat(token) ==
    CASE token.type \in {"Eq", "NotEq"} -> Equals
      [] token.type \in {"LT", "GT"} -> LessGreater
      [] token.type \in {"Plus", "Minus"} -> Product
      [] token.type \in {"Slash", "Asterisk"} -> Product
      [] token.type = "LParen" -> CallPrecedence
      [] OTHER -> Lowest

Token_precedence(token) ==
    CASE token.type \in {"Eq", "NotEq"} -> Equals
      [] token.type \in {"LT", "GT"} -> LessGreater
      [] token.type \in {"Plus", "Minus"} -> Sum
      [] token.type \in {"Slash", "Asterisk"} -> Product
      [] token.type = "LParen" -> CallPrecedence
      [] OTHER -> Lowest

(***************************************************************************)
(* lexer.rs: Lexer {input: Chars, cur, peek}; input is what the iterator   *)
(* has not yielded yet.                                                    *)
(***************************************************************************)
LowerCase == {"a", "b", "c", "d", "e", "f", "g", "h", "i", "j", "k", "l", "m", "n",
              "o", "p", "q", "r", "s", "t", "u", "v", "w", "x", "y", "z"}

UpperCase == {"A", "B", "C", "D", "E", "F", "G", "H", "I", "J", "K", "L", "M", "N",
              "O", "P", "Q", "R", "S", "T", "U", "V", "W", "X", "Y", "Z"}

Digits == <<"0", "1", "2", "3", "4", "5", "6", "7", "8", "9">>

\* is_letter that takes the digits as well
is_letter_or_digit(c) ==
    c \in LowerCase \/ c \in UpperCase \/ c = "_" \/ \E d \in DOMAIN Digits : Digits[d] = c

is_letter(c) == c \in LowerCase \/ c \in UpperCase \/ c = "_"

is_ascii_digit(c) == \E d \in DOMAIN Digits : Digits[d] = c

to_digit(c) == (CHOOSE d \in DOMAIN Digits : Digits[d] = c) - 1

\* read_char: the char it returns is l.cur
read_char(l) ==
    [cur |-> l.peek,
     peek |-> IF l.input = <<>> THEN NUL ELSE Head(l.input),
     input |-> IF l.input = <<>> THEN <<>> ELSE Tail(l.input)]

Lexer_new(input) == read_char(read_char([input |-> input, cur |-> NUL, peek |-> NUL]))

RECURSIVE skip_whitespace(_)
skip_whitespace(l) ==
    IF l.cur \in {" ", "\t", "\n", "\r"} THEN skip_whitespace(read_char(l)) ELSE l

\* the loop of read_ident, ident being what it has pushed so far
RECURSIVE read_ident_from(_, _)
read_ident_from(l, ident) ==
    IF is_letter(l.cur) THEN read_ident_from(read_char(l), Append(ident, l.cur))
    ELSE [tok |-> IF Token_keyword(ident).some THEN Token_keyword(ident).val
                  ELSE TokIdent(ident),
          l |-> l]

read_ident(l) == read_ident_from(l, <<>>)

\* str::parse::<i32> on a string of digits: None when the number is above i32::MAX
RECURSIVE parse_i32(_, _, _)
parse_i32(number, i, acc) ==
    IF i > Len(number) THEN Some(acc)
    ELSE IF acc > (I32_MAX - to_digit(number[i])) \div 10 THEN None
    ELSE parse_i32(number, i + 1, acc * 10 + to_digit(number[i]))

\* the loop of read_number
RECURSIVE read_number_from(_, _)
read_number_from(l, number) ==
    IF is_ascii_digit(l.cur) THEN read_number_from(read_char(l), Append(number, l.cur))
    ELSE [tok |-> IF parse_i32(number, 1, 0).some
                  THEN TokInteger(parse_i32(number, 1, 0).val)
                  ELSE ParseIntPanic,
          l |-> l]

read_number(l) == read_number_from(l, <<>>)

\* the loop of read_string
RECURSIVE read_string_from(_, _)
read_string_from(l, str) ==
    IF l.cur # "\"" /\ l.cur # NUL THEN read_string_from(read_char(l), Append(str, l.cur))
    ELSE [tok |-> TokString(str), l |-> l]

read_string(l) == read_string_from(read_char(l), <<>>)

\* next_token after skip_whitespace
next_token_at(l) ==
    LET one(type) == [tok |-> Tok(type), l |-> read_char(l)]
        two(type) == [tok |-> Tok(type), l |-> read_char(read_char(l))]
    IN  CASE l.cur = "=" -> IF l.peek = "=" THEN two("Eq") ELSE one("Assign")
          [] l.cur = "!" -> IF l.peek = "=" THEN two("NotEq") ELSE one("Bang")
          [] l.cur = ";" -> one("Semicolon")
          [] l.cur = "," -> one("Comma")
          [] l.cur = "(" -> one("LParen")
          [] l.cur = ")" -> one("RParen")
          [] l.cur = "{" -> one("LBrace")
          [] l.cur = "}" -> one("RBrace")
          [] l.cur = "+" -> one("Plus")
          [] l.cur = "-" -> one("Minus")
          [] l.cur = "*" -> one("Asterisk")
          [] l.cur = "/" -> one("Slash")
          [] l.cur = "<" -> one("LT")
          [] l.cur = ">" -> one("GT")
          [] l.cur = "\"" -> [tok |-> read_string(l).tok, l |-> read_char(read_string(l).l)]
          [] l.cur = NUL -> one("EOF")
          [] OTHER -> IF is_letter(l.cur) THEN read_ident(l)
                      ELSE IF is_ascii_digit(l.cur) THEN read_number(l)
                      ELSE one("Illegal")

\* next_token: the Token returned and the lexer afterwards
next_token(l) == next_token_at(skip_whitespace(l))

(***************************************************************************)
(* The lexer on its own: a Lexer is made for a source text of at most      *)
(* MaxSource chars and next_token is called on it again and again;         *)
(* returned is the history of the calls.                                   *)
(***************************************************************************)
MaxSource == 3

\* the chars of the source texts
Alphabet == {"i", "f", "n", "_", "Z", "7", " ", "=", "\"", "@", EAcute, NUL}

ParserIdle ==
    /\ parser = Off
    /\ parsed = Off
    /\ tree = Off

EvaluatorIdle ==
    /\ program = <<>>
    /\ pc = 1
    /\ result = ObjNull
    /\ ret = Running
    /\ heap = <<Environment_new>>
    /\ log = <<>>
    /\ overflow_checks = TRUE
    /\ infix = Idle

InitLexer ==
    /\ source \in SeqsUpTo(Alphabet, MaxSource)
    /\ lexer = Lexer_new(source)
    /\ returned = <<>>
    /\ ParserIdle
    /\ EvaluatorIdle

\* a call of next_token; there are enough of them to get past the end of the
\* source text and call again
NextToken ==
    /\ Len(returned) < Len(source) + 3
    /\ \A k \in DOMAIN returned : returned[k].tok # ParseIntPanic
    /\ lexer' = next_token(lexer).l
    /\ returned' = Append(returned, [before |-> lexer, tok |-> next_token(lexer).tok])
    /\ UNCHANGED <<source, parser, parsed, tree, program, pc, result, ret, heap, log,
                   overflow_checks, infix>>

NextLexer == NextToken

SpecLexer == InitLexer /\ [][NextLexer]_vars

(***************************************************************************)
(* error.rs: MonkeyError (the syntax errors).                              *)
(***************************************************************************)
InvalidToken(token) == [error |-> "InvalidToken", token |-> token]
UnexpectedToken(expected, got) ==
    [error |-> "UnexpectedToken", expected |-> expected, got |-> got]

(***************************************************************************)
(* parser.rs: Parser {l, cur_token, peek_token}.  The methods are          *)
(* operators on a parser p = [l, cur_token, peek_token, log] that return   *)
(* [out, p]: out is the Result of the method and p the parser afterwards.  *)
(* log is a history kept for the properties: every token read from the     *)
(* lexer, every call of expect_peek, where every let and return statement  *)
(* stood when its expression was parsed and when it returned, and every    *)
(* turn and every return of the loop of parse_block_statement.             *)
(***************************************************************************)
\* `let value = ...;` followed by the rest of a method
Bind(value, rest(_)) == rest(value)

Failed(r) == r.out.tag # "Ok"

\* `let r = ...?;` followed by the rest of a method: a failure is returned at once
Try(r, rest(_)) == IF Failed(r) THEN r ELSE rest(r)

Parser_next_token(p) ==
    Bind(next_token(p.l), LAMBDA t :
        [l |-> t.l,
         cur_token |-> p.peek_token,
         peek_token |-> t.tok,
         log |-> Append(p.log, [ev |-> "next_token", token |-> t.tok])])

Parser_new(l) ==
    Parser_next_token(Parser_next_token(
        [l |-> l, cur_token |-> Tok("Illegal"), peek_token |-> Tok("Illegal"),
         log |-> <<>>]))

\* where the parser stands
At(p) == [l |-> p.l, cur_token |-> p.cur_token, peek_token |-> p.peek_token]

ExpectPeekCalled(p, expected_token) ==
    [p EXCEPT !.log = Append(@, [ev |-> "expect_peek", expected |-> expected_token,
                                 at |-> At(p)])]

\* expect_peek that steps over the token it did not expect
expect_peek_skipping(p, expected_token) ==
    IF p.peek_token = expected_token
    THEN [out |-> Ok(<<>>), p |-> Parser_next_token(ExpectPeekCalled(p, expected_token))]
    ELSE [out |-> Err(UnexpectedToken(expected_token, p.peek_token)),
          p |-> Parser_next_token(ExpectPeekCalled(p, expected_token))]

expect_peek(p, expected_token) ==
    IF p.peek_token = expected_token
    THEN [out |-> Ok(<<>>), p |-> Parser_next_token(ExpectPeekCalled(p, expected_token))]
    ELSE [out |-> Err(UnexpectedToken(expected_token, p.peek_token)),
          p |-> ExpectPeekCalled(p, expected_token)]

cur_precedence(p) == Token_precedence(p.cur_token)

peek_precedence(p) == Token_precedence(p.peek_token)

\* the operator::Infix of a token
InfixOf(token) ==
    CASE token.type = "Plus" -> "+"
      [] token.type = "Minus" -> "-"
      [] token.type = "Asterisk" -> "*"
      [] token.type = "Slash" -> "/"
      [] token.type = "Eq" -> "=="
      [] token.type = "NotEq" -> "!="
      [] token.type = "LT" -> "<"
      [] token.type = "GT" -> ">"

InfixTokens == {"Plus", "Minus", "Slash", "Asterisk", "Eq", "NotEq", "LT", "GT"}

\* a method returns Ok(value) and leaves the parser as p
Done(value, p) == [out |-> Ok(value), p |-> p]

\* a method returns Err(error) and leaves the parser as p
Fail(error, p) == [out |-> Err(error), p |-> p]

RECURSIVE parse_statement(_), parse_let_statement(_), parse_return_statement(_),
          parse_return_statement_lenient(_),
          parse_expression_statement(_), parse_expression(_, _),
          parse_expression_loop(_, _, _), parse_grouped_expression(_),
          parse_if_expression(_), parse_function_literal(_),
          parse_function_parameters(_), parse_function_parameters_loop(_, _),
          parse_call_expression(_, _), parse_call_arguments_loop(_, _),
          parse_block_statement(_), parse_block_statement_loop(_, _),
          parse_block_statement_loop_closed(_, _),
          parse_prefix_expression(_), parse_infix_expression(_, _)

parse_statement(p) ==
    CASE p.cur_token = Tok("Let") -> parse_let_statement(p)
      [] p.cur_token = Tok("Return") -> parse_return_statement(p)
      [] OTHER -> parse_expression_statement(p)

parse_let_statement(p) ==
    Bind(Parser_next_token(p), LAMBDA p1 :
        IF p1.cur_token.type # "Ident"
        THEN Fail(UnexpectedToken(TokIdent(<<>>), p1.cur_token), p1)
        ELSE Try(expect_peek(p1, Tok("Assign")), LAMBDA e :
             Try(parse_expression(Parser_next_token(e.p), Lowest), LAMBDA v :
             Bind(IF v.p.cur_token # Tok("Semicolon") THEN Parser_next_token(v.p) ELSE v.p,
                  LAMBDA p2 :
                 Done(StmtLet(ExprIdent(p1.cur_token.ident), v.out.val),
                      [p2 EXCEPT !.log = Append(@, [ev |-> "let", value |-> v.out.val,
                                                    parsed |-> At(v.p),
                                                    returned |-> At(p2)])])))))

\* parse_return_statement that takes the `;` only when there is one
parse_return_statement_lenient(p) ==
    Try(parse_expression(Parser_next_token(p), Lowest), LAMBDA v :
    Bind(IF v.p.peek_token = Tok("Semicolon") THEN expect_peek(v.p, Tok("Semicolon"))
         ELSE Done(<<>>, v.p), LAMBDA e :
    Bind(IF Failed(e) THEN e.out ELSE Ok(StmtReturn(v.out.val)), LAMBDA out :
        [out |-> out,
         p |-> [e.p EXCEPT !.log = Append(@, [ev |-> "return", value |-> v.out.val,
                                              parsed |-> At(v.p), out |-> out])]])))

parse_return_statement(p) ==
    Try(parse_expression(Parser_next_token(p), Lowest), LAMBDA v :
    Bind(expect_peek(v.p, Tok("Semicolon")), LAMBDA e :
    Bind(IF Failed(e) THEN e.out ELSE Ok(StmtReturn(v.out.val)), LAMBDA out :
        [out |-> out,
         p |-> [e.p EXCEPT !.log = Append(@, [ev |-> "return", value |-> v.out.val,
                                              parsed |-> At(v.p), out |-> out])]])))

parse_expression_statement(p) ==
    Try(parse_expression(p, Lowest), LAMBDA v :
        Done(StmtExpression(v.out.val),
             IF v.p.peek_token = Tok("Semicolon") THEN Parser_next_token(v.p) ELSE v.p))

parse_expression(p, precedence) ==
    Try(CASE p.cur_token.type = "Ident" -> Done(ExprIdent(p.cur_token.ident), p)
          [] p.cur_token.type = "String" -> Done(ExprString(p.cur_token.str), p)
          [] p.cur_token.type = "Integer" -> Done(ExprInteger(p.cur_token.int), p)
          [] p.cur_token.type = "True" -> Done(ExprBool(TRUE), p)
          [] p.cur_token.type = "False" -> Done(ExprBool(FALSE), p)
          [] p.cur_token.type = "Bang" -> parse_prefix_expression(p)
          [] p.cur_token.type = "Minus" -> parse_prefix_expression(p)
          [] p.cur_token.type = "LParen" -> parse_grouped_expression(p)
          [] p.cur_token.type = "If" -> parse_if_expression(p)
          [] p.cur_token.type = "Function" -> parse_function_literal(p)
          [] OTHER -> Fail(InvalidToken(p.cur_token), p),
        LAMBDA left : parse_expression_loop(left.p, precedence, left.out.val))

\* the while loop of parse_expression
parse_expression_loop(p, precedence, left) ==
    IF p.peek_token # Tok("Semicolon") /\ precedence < peek_precedence(p)
    THEN (IF p.peek_token.type \in InfixTokens
          THEN Try(parse_infix_expression(Parser_next_token(p), left), LAMBDA r :
                   parse_expression_loop(r.p, precedence, r.out.val))
          ELSE IF p.peek_token.type = "LParen"
          THEN Try(parse_call_expression(Parser_next_token(p), left), LAMBDA r :
                   parse_expression_loop(r.p, precedence, r.out.val))
          ELSE Done(left, p))
    ELSE Done(left, p)

parse_grouped_expression(p) ==
    Try(parse_expression(Parser_next_token(p), Lowest), LAMBDA exp :
    Try(expect_peek(exp.p, Tok("RParen")), LAMBDA e :
        Done(exp.out.val, e.p)))

parse_if_expression(p) ==
    Try(expect_peek(p, Tok("LParen")), LAMBDA e1 :
    Try(parse_expression(e1.p, Lowest), LAMBDA condition :
        IF condition.p.cur_token # Tok("RParen")
        THEN Fail(UnexpectedToken(Tok("RParen"), condition.p.cur_token), condition.p)
        ELSE Try(expect_peek(condition.p, Tok("LBrace")), LAMBDA e2 :
             Try(parse_block_statement(e2.p), LAMBDA consequence :
                 IF consequence.p.peek_token # Tok("Else")
                 THEN Done(ExprIf(condition.out.val, consequence.out.val, None),
                           consequence.p)
                 ELSE Try(expect_peek(Parser_next_token(consequence.p), Tok("LBrace")),
                          LAMBDA e3 :
                      Try(parse_block_statement(e3.p), LAMBDA alt :
                          Done(ExprIf(condition.out.val, consequence.out.val,
                                      Some(alt.out.val)),
                               alt.p)))))))

parse_function_literal(p) ==
    Try(expect_peek(p, Tok("LParen")), LAMBDA e1 :
    Try(parse_function_parameters(e1.p), LAMBDA parameters :
    Try(expect_peek(parameters.p, Tok("LBrace")), LAMBDA e2 :
    Try(parse_block_statement(e2.p), LAMBDA body :
        Done(ExprFunction(parameters.out.val, body.out.val), body.p)))))

\* the while loop of parse_function_parameters
parse_function_parameters_loop(p, idents) ==
    IF p.cur_token.type # "Ident"
    THEN Fail(InvalidToken(p.cur_token), p)
    ELSE IF p.peek_token = Tok("Comma")
    THEN parse_function_parameters_loop(Parser_next_token(Parser_next_token(p)),
                                        Append(idents, ExprIdent(p.cur_token.ident)))
    ELSE Done(Append(idents, ExprIdent(p.cur_token.ident)), p)

parse_function_parameters(p) ==
    IF p.peek_token = Tok("RParen")
    THEN Done(<<>>, Parser_next_token(p))
    ELSE Try(parse_function_parameters_loop(Parser_next_token(p), <<>>), LAMBDA idents :
         Try(expect_peek(idents.p, Tok("RParen")), LAMBDA e :
             Done(idents.out.val, e.p)))

\* the while loop of parse_call_expression
parse_call_arguments_loop(p, arguments) ==
    Try(parse_expression(p, Lowest), LAMBDA a :
        IF a.p.peek_token = Tok("Comma")
        THEN parse_call_arguments_loop(Parser_next_token(Parser_next_token(a.p)),
                                       Append(arguments, a.out.val))
        ELSE Done(Append(arguments, a.out.val), a.p))

parse_call_expression(p, function) ==
    IF p.peek_token = Tok("RParen")
    THEN Done(ExprCall(function, <<>>), Parser_next_token(p))
    ELSE Try(parse_call_arguments_loop(Parser_next_token(p), <<>>), LAMBDA arguments :
         Try(expect_peek(arguments.p, Tok("RParen")), LAMBDA e :
             Done(ExprCall(function, arguments.out.val), e.p)))

\* the condition of the while loop of parse_block_statement is evaluated
BlockTurn(p, blocks) ==
    [p EXCEPT !.log = Append(@, [ev |-> "block_turn", at |-> At(p), blocks |-> blocks])]

\* parse_block_statement returns Ok(block)
BlockReturned(p, block) ==
    [p EXCEPT !.log = Append(@, [ev |-> "block", value |-> block, at |-> At(p)])]

\* the while loop of parse_block_statement ended by `}` only: at the end of the
\* input the `}` is reported missing
parse_block_statement_loop_closed(p, blocks) ==
    IF p.cur_token = Tok("EOF")
    THEN Fail(UnexpectedToken(Tok("RBrace"), p.cur_token), BlockTurn(p, blocks))
    ELSE IF p.cur_token # Tok("RBrace")
    THEN Try(parse_statement(BlockTurn(p, blocks)), LAMBDA s :
             parse_block_statement_loop(Parser_next_token(s.p), Append(blocks, s.out.val)))
    ELSE Done(StmtBlock(blocks), BlockReturned(BlockTurn(p, blocks), StmtBlock(blocks)))

\* the while loop of parse_block_statement
parse_block_statement_loop(p, blocks) ==
    IF p.cur_token # Tok("RBrace") /\ p.cur_token # Tok("EOF")
    THEN Try(parse_statement(BlockTurn(p, blocks)), LAMBDA s :
             parse_block_statement_loop(Parser_next_token(s.p), Append(blocks, s.out.val)))
    ELSE Done(StmtBlock(blocks), BlockReturned(BlockTurn(p, blocks), StmtBlock(blocks)))

parse_block_statement(p) == parse_block_statement_loop(Parser_next_token(p), <<>>)

parse_prefix_expression(p) ==
    IF p.cur_token.type \notin {"Bang", "Minus"}
    THEN Fail(InvalidToken(p.cur_token), p)
    ELSE Try(parse_expression(Parser_next_token(p), Prefix), LAMBDA right :
             Done(ExprPrefix(IF p.cur_token.type = "Bang" THEN "!" ELSE "-", right.out.val),
                  right.p))

parse_infix_expression(p, left) ==
    IF p.cur_token.type \notin InfixTokens
    THEN Fail(InvalidToken(p.cur_token), p)
    ELSE Try(parse_expression(Parser_next_token(p), cur_precedence(p)), LAMBDA right :
             Done(ExprInfix(InfixOf(p.cur_token), left, right.out.val), right.p))

(***************************************************************************)
(* ast.rs: Display, the rendering of a tree as a string of chars.          *)
(***************************************************************************)
\* i32::to_string for n >= 0
RECURSIVE to_string(_)
to_string(n) ==
    IF n < 10 THEN <<Digits[n + 1]>> ELSE to_string(n \div 10) \o <<Digits[(n % 10) + 1]>>

\* Vec<String>::join
RECURSIVE join(_, _)
join(strings, sep) ==
    IF strings = <<>> THEN <<>>
    ELSE IF Len(strings) = 1 THEN strings[1]
    ELSE strings[1] \o sep \o join(Tail(strings), sep)

\* the chars of an operator
OpChars(op) == IF op = "==" THEN <<"=", "=">> ELSE IF op = "!=" THEN <<"!", "=">> ELSE <<op>>

RECURSIVE Display_statement(_), Display_expression(_)

Display_statement(stmt) ==
    CASE stmt.type = "Let" ->
            <<"l", "e", "t", " ">> \o Display_expression(stmt.ident) \o <<" ", "=", " ">>
            \o Display_expression(stmt.value) \o <<";">>
      [] stmt.type = "Return" ->
            <<"r", "e", "t", "u", "r", "n", " ">> \o Display_expression(stmt.value) \o <<";">>
      [] stmt.type = "Expression" -> Display_expression(stmt.value) \o <<";">>
      [] stmt.type = "Block" ->
            join([k \in DOMAIN stmt.statements |-> Display_statement(stmt.statements[k])],
                 <<>>)

Display_expression(expr) ==
    CASE expr.type = "Ident" -> expr.name
      [] expr.type = "String" -> expr.str
      [] expr.type = "Integer" ->
            IF expr.int < 0 THEN <<"-">> \o to_string(-expr.int) ELSE to_string(expr.int)
      [] expr.type = "Bool" -> IF expr.bool THEN <<"t", "r", "u", "e">> ELSE <<"f", "a", "l", "s", "e">>
      [] expr.type = "Prefix" ->
            <<"(">> \o OpChars(expr.op) \o Display_expression(expr.right) \o <<")">>
      [] expr.type = "Infix" ->
            <<"(">> \o Display_expression(expr.left) \o OpChars(expr.op)
            \o Display_expression(expr.right) \o <<")">>
      [] expr.type = "If" ->
            <<"i", "f", "(">> \o Display_expression(expr.condition) \o <<")", "{">>
            \o Display_statement(expr.consequence) \o <<"}">>
            \o (IF expr.alternative.some
                THEN <<"e", "l", "s", "e", "{">> \o Display_statement(expr.alternative.val) \o <<"}">>
                ELSE <<>>)
      [] expr.type = "Function" ->
            <<"f", "n", "(">>
            \o join([k \in DOMAIN expr.parameters |-> expr.parameters[k].name], <<",">>)
            \o <<")", "{">> \o Display_statement(expr.body) \o <<"}">>
      [] expr.type = "Call" ->
            Display_expression(expr.function) \o <<"(">>
            \o join([k \in DOMAIN expr.arguments |-> Display_expression(expr.arguments[k])],
                    <<",">>)
            \o <<")">>

(***************************************************************************)
(* Parser::new and Parser::parse_program on a source text, one turn of the *)
(* loop of parse_program per step: parsed.statements is program.statements *)
(* and parsed.ret is what parse_program has returned.                      *)
(***************************************************************************)
\* the lexer has aborted the process on an integer literal above i32::MAX
Panicked(p) ==
    \E k \in DOMAIN p.log : p.log[k].ev = "next_token" /\ p.log[k].token = ParseIntPanic

ParserNew ==
    /\ parser = Off
    /\ parser' = Parser_new(lexer)
    /\ parsed' = [statements |-> <<>>,
                  ret |-> IF Panicked(parser') THEN Panic("ParseIntError") ELSE Running]
    /\ UNCHANGED <<source, lexer, returned, tree, program, pc, result, ret, heap, log,
                   overflow_checks, infix>>

ParseStatement ==
    /\ parser # Off
    /\ parsed.ret = Running
    /\ parser.cur_token # Tok("EOF")
    /\ \E s \in {parse_statement(parser)} :
           /\ parser' = IF Failed(s) THEN s.p ELSE Parser_next_token(s.p)
           /\ parsed' = IF Panicked(parser') THEN [parsed EXCEPT !.ret = Panic("ParseIntError")]
                        ELSE IF Failed(s) THEN [parsed EXCEPT !.ret = s.out]
                        ELSE [parsed EXCEPT !.statements = Append(@, s.out.val)]
    /\ UNCHANGED <<source, lexer, returned, tree, program, pc, result, ret, heap, log,
                   overflow_checks, infix>>

ParseEnd ==
    /\ parser # Off
    /\ parsed.ret = Running
    /\ parser.cur_token = Tok("EOF")
    /\ parsed' = [parsed EXCEPT !.ret = Ok(parsed.statements)]
    /\ UNCHANGED <<source, lexer, returned, parser, tree, program, pc, result, ret, heap,
                   log, overflow_checks, infix>>

NextParser == ParserNew \/ ParseStatement \/ ParseEnd

(***************************************************************************)
(* The parser on source texts put together from a few fragments, with a    *)
(* blank between two fragments.                                            *)
(***************************************************************************)
\* the most fragments in a source text
MaxFragments == 3

Fragments ==
    { <<"l", "e", "t", " ", "x", " ", "=", " ", "5">>,
      <<"r", "e", "t", "u", "r", "n", " ", "7">>,
      <<"f", "n", "(", ")", " ", "{">>,
      <<"i", "f", " ", "(", "y">>,
      <<"i", "f", " ", "(", "y", ")", " ", "{">>,
      <<"}", " ", "e", "l", "s", "e", " ", "{">>,
      <<";">>,
      <<"y">>,
      <<"}">>,
      <<")">>,
      <<"@">> }

RECURSIVE Spaced(_)
Spaced(fragments) ==
    IF fragments = <<>> THEN <<>>
    ELSE IF Len(fragments) = 1 THEN fragments[1]
    ELSE fragments[1] \o <<" ">> \o Spaced(Tail(fragments))

InitParser ==
    /\ \E fragments \in SeqsUpTo(Fragments, MaxFragments) : source = Spaced(fragments)
    /\ lexer = Lexer_new(source)
    /\ returned = <<>>
    /\ ParserIdle
    /\ EvaluatorIdle

SpecParser == InitParser /\ [][NextParser]_vars

(***************************************************************************)
(* The parser on expressions: the source text is an expression of at most  *)
(* MaxOperators operators and calls, written with parentheses only where   *)
(* the grouping departs from precedence and left association.              *)
(***************************************************************************)
\* the most operators and calls in an expression
MaxOperators == 2

\* the leaves of the expressions: an identifier and an integer literal
Atoms == {ExprIdent(<<"a">>), ExprInteger(10)}

\* the expressions of exactly n operators and calls whose leftmost leaf is atom;
\* a right operand and an argument start with the other atom
RECURSIVE ExpressionsOf(_, _)
ExpressionsOf(n, atom) ==
    IF n = 0 THEN {atom}
    ELSE {ExprPrefix(op, right) : op \in {"!", "-"}, right \in ExpressionsOf(n - 1, atom)}
         \cup {ExprCall(function, <<>>) : function \in ExpressionsOf(n - 1, atom)}
         \cup UNION {{ExprInfix(op, left, right) :
                          op \in InfixOps, left \in ExpressionsOf(k, atom),
                          right \in UNION {ExpressionsOf(n - 1 - k, other) :
                                               other \in Atoms \ {atom}}} :
                      k \in 0..(n - 1)}
         \cup UNION {{ExprCall(function, <<argument>>) :
                          function \in ExpressionsOf(k, atom),
                          argument \in UNION {ExpressionsOf(n - 1 - k, other) :
                                                  other \in Atoms \ {atom}}} :
                      k \in 0..(n - 1)}

Expressions(most) == UNION {ExpressionsOf(n, ExprIdent(<<"a">>)) : n \in 0..most}

\* how tightly the outermost operator of an expression binds
Binding(expr) ==
    CASE expr.type = "Infix" /\ expr.op \in {"==", "!="} -> Equals
      [] expr.type = "Infix" /\ expr.op \in {"<", ">"} -> LessGreater
      [] expr.type = "Infix" /\ expr.op \in {"+", "-"} -> Sum
      [] expr.type = "Infix" /\ expr.op \in {"*", "/"} -> Product
      [] expr.type = "Prefix" -> Prefix
      [] expr.type = "Call" -> CallPrecedence
      [] OTHER -> CallPrecedence + 1

\* the text of an expression, an operand in parentheses only when it binds
\* less tightly than its place requires
RECURSIVE Unparse(_)
Unparse(expr) ==
    LET operand(e, least) ==
            IF Binding(e) < least THEN <<"(">> \o Unparse(e) \o <<")">> ELSE Unparse(e)
    IN  CASE expr.type = "Ident" -> expr.name
          [] expr.type = "Integer" -> to_string(expr.int)
          [] expr.type = "Prefix" -> OpChars(expr.op) \o operand(expr.right, Prefix)
          [] expr.type = "Infix" ->
                operand(expr.left, Binding(expr)) \o <<" ">> \o OpChars(expr.op)
                \o <<" ">> \o operand(expr.right, Binding(expr) + 1)
          [] expr.type = "Call" ->
                operand(expr.function, CallPrecedence) \o <<"(">>
                \o (IF expr.arguments = <<>> THEN <<>> ELSE Unparse(expr.arguments[1]))
                \o <<")">>

InitPrecedence ==
    /\ tree \in Expressions(MaxOperators)
    /\ source = Unparse(tree)
    /\ lexer = Lexer_new(source)
    /\ returned = <<>>
    /\ parser = Off
    /\ parsed = Off
    /\ EvaluatorIdle

SpecPrecedence == InitPrecedence /\ [][NextParser]_vars

(***************************************************************************)
(* Reading the history.                                                    *)
(***************************************************************************)
IsEvent(i, ev) == i \in DOMAIN log /\ log[i].ev = ev

\* log[i] is eval_expression returning from a node of the given type
IsExprExit(i, type) ==
    /\ IsEvent(i, "exit")
    /\ log[i].fn = "eval_expression"
    /\ log[i].node.type = type

\* log[i] is eval_statement returning from a statement of the given type
IsStmtExit(i, type) ==
    /\ IsEvent(i, "exit")
    /\ log[i].fn = "eval_statement"
    /\ log[i].node.type = type

\* log[a] is apply_function starting and log[a + 1] the environment it makes
IsCall(a) == IsEvent(a, "apply") /\ IsEvent(a + 1, "from")

\* log[l] is the evaluation of the function literal of the closure applied at log[a]
IsLiteralOf(l, a) ==
    /\ l < a
    /\ IsExprExit(l, "Function")
    /\ log[l].node.parameters = log[a].function.parameters
    /\ log[l].node.body = log[a].function.body

\* the environment whose evaluator called apply_function at log[a]: the callee
\* expression is the last thing evaluated before it
CallerOf(a) == log[a - 1].env

\* the last set of name in environment e before log[i], 0 if there is none
LastSet(i, e, name) ==
    LET js == {j \in 1..(i - 1) : /\ log[j].ev = "set"
                                  /\ log[j].env = e
                                  /\ log[j].name = name}
    IN  IF js = {} THEN 0 ELSE CHOOSE j \in js : \A k \in js : k <= j

RECURSIVE Visible(_, _, _)
\* the binding of name that the lets and parameter bindings executed before
\* log[i] make visible from environment e
Visible(i, e, name) ==
    IF LastSet(i, e, name) # 0 THEN Some(log[LastSet(i, e, name)].value)
    ELSE IF heap[e].host # 0 THEN Visible(i, heap[e].host, name)
    ELSE None

(***************************************************************************)
(* C1: scoping is lexical.  Every environment made for a call has as its   *)
(* outer link the environment in which the function literal of the called  *)
(* closure was evaluated, whatever environment the call is made from.      *)
(***************************************************************************)
C1_LexicalScoping ==
    \A a \in DOMAIN log :
        IsCall(a) =>
            /\ log[a + 1].host # 0
            /\ heap[log[a + 1].env].host = log[a + 1].host
            /\ \E l \in 1..(a - 1) : IsLiteralOf(l, a) /\ log[l].env = log[a + 1].host

\* a call made from an environment other than the defining one, whose body reads
\* a name that the calling environment binds to another value than the defining one
C1_Witness ==
    \E a \in DOMAIN log :
        /\ IsCall(a)
        /\ CallerOf(a) # log[a + 1].host
        /\ \E k \in (a + 2)..Len(log) :
              /\ log[k].ev = "get"
              /\ log[k].env = log[a + 1].env
              /\ log[k].found.some
              /\ log[k].name \in DOMAIN heap[CallerOf(a)].store
              /\ log[k].name \in DOMAIN heap[log[a + 1].host].store
              /\ log[k].found.val = heap[log[a + 1].host].store[log[k].name]
              /\ log[k].found.val # heap[CallerOf(a)].store[log[k].name]

(***************************************************************************)
(* C2: a closure captures its defining environment by reference.  A name   *)
(* that the body of a call reads and the call's own environment does not   *)
(* bind has the value of the last let executed before the read in the      *)
(* scope chain where the function literal was evaluated, lets executed     *)
(* after the literal was evaluated included.                               *)
(***************************************************************************)
C2_CaptureByReference ==
    \A a \in DOMAIN log :
        IsCall(a) =>
            \A k \in (a + 2)..Len(log) :
                ( /\ log[k].ev = "get"
                  /\ log[k].env = log[a + 1].env
                  /\ LastSet(k, log[k].env, log[k].name) = 0 )
                => \E l \in 1..(a - 1) :
                      /\ IsLiteralOf(l, a)
                      /\ log[k].found = Visible(k, log[l].env, log[k].name)

\* a call whose body reads a name bound in the defining environment by a let
\* executed after the function literal was evaluated and before the call
C2_Witness ==
    \E a \in DOMAIN log :
        /\ IsCall(a)
        /\ \E l \in 1..(a - 1) : \E j \in (l + 1)..(a - 1) : \E k \in (a + 2)..Len(log) :
              /\ IsLiteralOf(l, a)
              /\ log[j].ev = "set"
              /\ log[j].env = log[l].env
              /\ log[k].ev = "get"
              /\ log[k].env = log[a + 1].env
              /\ log[k].name = log[j].name
              /\ LastSet(k, log[k].env, log[k].name) = 0
              /\ LastSet(k, log[l].env, log[k].name) = j
              /\ log[k].found = Some(log[j].value)

(***************************************************************************)
(* The top-level statements in the history: Evaluator::eval marks each     *)
(* iteration of its loop with an "eval" event.                             *)
(***************************************************************************)
TopMarks == {p \in DOMAIN log : log[p].ev = "eval"}

TopCount == Cardinality(TopMarks)

\* the position in log of the mark of the k-th iteration
TopAt(k) == CHOOSE p \in TopMarks : log[p].index = k

\* the last event of the k-th iteration: eval_statement returning
TopExit(k) == IF k < TopCount THEN log[TopAt(k + 1) - 1] ELSE log[Len(log)]

(***************************************************************************)
(* C3: Evaluator::eval evaluates the statements of the program in source   *)
(* order, each once; it goes on to the next statement only after a         *)
(* statement that yields a value other than a ReturnValue; it returns the  *)
(* value inside the first ReturnValue a statement yields, else the value   *)
(* of the last statement, and Null for the empty program.                  *)
(***************************************************************************)
C3_ProgramResult ==
    /\ TopCount = pc - 1
    /\ TopCount <= Len(program)
    /\ \A k \in 1..TopCount :
          /\ \E p \in TopMarks : log[p].index = k
          /\ k < TopCount => TopAt(k) < TopAt(k + 1)
          /\ log[TopAt(k) + 1] = [ev |-> "enter", fn |-> "eval_statement", env |-> 1,
                                  node |-> program[k]]
          /\ TopExit(k).ev = "exit"
          /\ TopExit(k).fn = "eval_statement"
          /\ TopExit(k).env = 1
          /\ TopExit(k).node = program[k]
          /\ k < TopCount => /\ TopExit(k).out.tag = "Ok"
                             /\ TopExit(k).out.val.kind # "ReturnValue"
    /\ (ret = Running /\ TopCount > 0) =>
          /\ TopExit(TopCount).out.tag = "Ok"
          /\ TopExit(TopCount).out.val.kind # "ReturnValue"
    /\ ret.tag = "Ok" =>
          IF TopCount = 0 THEN program = <<>> /\ ret.val = ObjNull
          ELSE /\ TopExit(TopCount).out.tag = "Ok"
               /\ IF TopExit(TopCount).out.val.kind = "ReturnValue"
                  THEN ret.val = TopExit(TopCount).out.val.value
                  ELSE TopCount = Len(program) /\ ret.val = TopExit(TopCount).out.val

\* eval has returned the value of a return statement that a let follows: the let
\* was not evaluated and its name is not bound
C3_Witness ==
    /\ ret.tag = "Ok"
    /\ TopCount > 0
    /\ TopCount < Len(program)
    /\ TopExit(TopCount).out.val.kind = "ReturnValue"
    /\ ret.val = ObjInteger(1)
    /\ program[TopCount + 1].type = "Let"
    /\ program[TopCount + 1].ident.name \notin DOMAIN heap[1].store

(***************************************************************************)
(* Calls in the history.                                                   *)
(***************************************************************************)
\* log[k] is eval_statement starting on a statement in environment e
IsStmtEnter(k, e) ==
    /\ IsEvent(k, "enter")
    /\ log[k].fn = "eval_statement"
    /\ log[k].env = e

\* the event at which the call expression of the call at log[a] returns: the
\* first return of a call expression to the calling environment after log[a]
CallExit(a) ==
    LET xs == {x \in (a + 1)..Len(log) : IsExprExit(x, "Call") /\ log[x].env = CallerOf(a)}
    IN  CHOOSE x \in xs : \A y \in xs : x <= y

(***************************************************************************)
(* C4: a return statement executed in the body of a call, however deep in  *)
(* blocks and if-expressions, ends the body: no statement of the body is   *)
(* evaluated after it, the call evaluates to the returned value, unwrapped,*)
(* and the caller goes on with that value as with any other.               *)
(***************************************************************************)
C4_ReturnEndsCall ==
    \A a \in DOMAIN log :
        IsCall(a) =>
            \A r \in (a + 2)..Len(log) :
                ( /\ IsStmtExit(r, "Return")
                  /\ log[r].env = log[a + 1].env
                  /\ log[r].out.tag = "Ok" )
                => /\ \A k \in (r + 1)..Len(log) : ~IsStmtEnter(k, log[a + 1].env)
                   /\ log[CallExit(a)].out = Ok(log[r].out.val.value)
                   /\ log[CallExit(a)].out.val.kind # "ReturnValue"

(***************************************************************************)
(* C5: ReturnValue is internal.  The value Evaluator::eval returns is      *)
(* never a ReturnValue, and neither is the value of a call expression.     *)
(***************************************************************************)
C5_ReturnValueInternal ==
    /\ ret.tag = "Ok" => ret.val.kind # "ReturnValue"
    /\ \A x \in DOMAIN log :
          (IsExprExit(x, "Call") /\ log[x].out.tag = "Ok")
          => log[x].out.val.kind # "ReturnValue"

(***************************************************************************)
(* Identifiers in the history.                                             *)
(***************************************************************************)
\* log[x] is eval_expression returning from an identifier that no let or parameter
\* binding executed so far makes visible from its environment
IsUnboundIdentExit(x) ==
    /\ IsExprExit(x, "Ident")
    /\ Visible(x, log[x].env, log[x].node.name) = None

\* log[x] is eval_expression returning from a call whose callee is an identifier
\* that nothing executed so far makes visible from its environment
IsUnboundCalleeExit(x) ==
    /\ IsExprExit(x, "Call")
    /\ log[x].node.function.type = "Ident"
    /\ Visible(x, log[x].env, log[x].node.function.name) = None

\* the callee of the call returning at log[x] was evaluated, last of all
CalleeEvaluated(x) ==
    /\ IsExprExit(x - 1, "Ident")
    /\ log[x - 1].node = log[x].node.function
    /\ log[x - 1].env = log[x].env
    /\ log[x - 2].ev = "get"

(***************************************************************************)
(* C6, as claimed: an identifier without a binding in its environment      *)
(* chain yields IdentifierNotFound, never a value, in every expression     *)
(* position, the callee of a call included.                                *)
(***************************************************************************)
C6_UnboundIdentifierAnywhere ==
    /\ \A x \in DOMAIN log :
          IsUnboundIdentExit(x) => log[x].out = Err(IdentifierNotFound(log[x].node.name))
    /\ \A x \in DOMAIN log :
          IsUnboundCalleeExit(x) => log[x].out.tag = "Err"

(***************************************************************************)
(* C6, amended: an identifier without a binding in its environment chain   *)
(* yields IdentifierNotFound carrying its name wherever it is evaluated,   *)
(* and a call whose callee is such an identifier yields no value (it fails *)
(* with an argument's error or with IdentifierNotFound of the callee),     *)
(* unless the callee is the identifier puts: puts is not looked up and the *)
(* call yields Null once its arguments are evaluated.                      *)
(***************************************************************************)
C6_UnboundIdentifier ==
    /\ \A x \in DOMAIN log :
          IsUnboundIdentExit(x) => log[x].out = Err(IdentifierNotFound(log[x].node.name))
    /\ \A x \in DOMAIN log :
          (IsUnboundCalleeExit(x) /\ log[x].node.function.name # "puts")
          => /\ log[x].out.tag = "Err"
             /\ CalleeEvaluated(x)
                => log[x].out = Err(IdentifierNotFound(log[x].node.function.name))
    /\ \A x \in DOMAIN log :
          (IsExprExit(x, "Call") /\ log[x].node.function = ExprIdent("puts")
           /\ log[x - 1].ev = "println")
          => log[x].out = Ok(ObjNull)

\* an unbound identifier was evaluated as the callee of a call, after the
\* arguments, and the call failed with IdentifierNotFound of that identifier
C6_Witness ==
    \E x \in DOMAIN log :
        /\ IsUnboundCalleeExit(x)
        /\ log[x].node.function.name # "puts"
        /\ CalleeEvaluated(x)
        /\ Len(log[x].node.arguments) > 0
        /\ log[x].out = Err(IdentifierNotFound(log[x].node.function.name))

C8_ErrorHalts ==
    /\ \A i \in DOMAIN log :
          (IsEvent(i, "exit") /\ log[i].out.tag = "Err")
          => /\ ret = log[i].out
             /\ \A j \in (i + 1)..Len(log) : log[j].ev = "exit" /\ log[j].out = log[i].out
    /\ ret.tag = "Err" => log[Len(log)] = [ev |-> "exit", fn |-> "eval_statement", env |-> 1,
                                           node |-> program[pc - 1], out |-> ret]

\* the right-hand side of a let failed: the let bound nothing, and the
\* statements after it in the program were not evaluated
C8_Witness ==
    /\ ret.tag = "Err"
    /\ pc <= Len(program)
    /\ \E i \in DOMAIN log :
          /\ IsStmtExit(i, "Let")
          /\ log[i].out = ret
          /\ log[i].node.ident.name \notin DOMAIN heap[log[i].env].store

(***************************************************************************)
(* C9: eval_infix_expression by the kinds of its operands.  Bool-Bool      *)
(* yields a Bool for == and != and UnknownOperator(Bool, op, Bool) for any *)
(* other operator; Integer-Bool and Bool-Integer yield TypeMismatch with   *)
(* the kinds in operand order; every other pair but Integer-Integer yields *)
(* Null.                                                                   *)
(***************************************************************************)
C9_InfixByKinds ==
    infix.applied =>
        LET l == infix.left.kind
            r == infix.right.kind
        IN  /\ (l = "Bool" /\ r = "Bool") =>
                  IF infix.op \in {"==", "!="}
                  THEN infix.out.tag = "Ok" /\ infix.out.val.kind = "Bool"
                  ELSE infix.out = Err(UnknownOperator("Bool", infix.op, "Bool"))
            /\ (l = "Integer" /\ r = "Bool") =>
                  infix.out = Err(TypeMismatch("Integer", infix.op, "Bool"))
            /\ (l = "Bool" /\ r = "Integer") =>
                  infix.out = Err(TypeMismatch("Bool", infix.op, "Integer"))
            /\ (<<l, r>> \notin {<<"Integer", "Integer">>, <<"Bool", "Bool">>,
                                 <<"Integer", "Bool">>, <<"Bool", "Integer">>}) =>
                  infix.out = Ok(ObjNull)

\* two equal strings were compared with == and the result is Null
C9_Witness ==
    /\ infix.applied
    /\ infix.op = "=="
    /\ infix.left = ObjString("a")
    /\ infix.right = ObjString("a")
    /\ infix.out = Ok(ObjNull)

(***************************************************************************)
(* C10: integer division by zero has a defined outcome: a / 0 yields a     *)
(* value or a runtime error, it does not abort the evaluation.             *)
(***************************************************************************)
C10_DivisionByZeroDefined ==
    ( /\ infix.applied
      /\ infix.op = "/"
      /\ infix.left.kind = "Integer"
      /\ infix.right = ObjInteger(0) )
    => infix.out.tag \in {"Ok", "Err"}

(***************************************************************************)
(* An evaluation in the history: the event at which the evaluation that    *)
(* starts at log[i] returns.  An evaluation of a node in an environment    *)
(* never contains another evaluation of the same node in the same          *)
(* environment (every call evaluates its body in a new environment), so it *)
(* is the first return from that node in that environment after log[i].    *)
(***************************************************************************)
ExitOf(i) ==
    LET js == {j \in (i + 1)..Len(log) : /\ log[j].ev = "exit"
                                         /\ log[j].fn = log[i].fn
                                         /\ log[j].env = log[i].env
                                         /\ log[j].node = log[i].node}
    IN  CHOOSE j \in js : \A k \in js : j <= k

IsIfEnter(i) ==
    /\ IsEvent(i, "enter")
    /\ log[i].fn = "eval_expression"
    /\ log[i].node.type = "If"

\* the evaluation of the condition of the if-expression entered at log[i] returns
\* at log[c]; the branch stmt is what is evaluated between that and the return
\* of the if-expression, whose outcome is that of the branch
OnlyBranch(i, c, stmt) ==
    /\ log[c + 1] = [ev |-> "enter", fn |-> "eval_statement", env |-> log[i].env,
                     node |-> stmt]
    /\ ExitOf(c + 1) = ExitOf(i) - 1
    /\ log[ExitOf(i)].out = log[ExitOf(i) - 1].out

IsFalsy(v) == v.kind = "Null" \/ (v.kind = "Bool" /\ v.bool = FALSE)

(***************************************************************************)
(* C11: an if-expression evaluates its condition first; when the value is  *)
(* neither Bool(false) nor Null it evaluates the consequence and nothing   *)
(* else, otherwise the alternative and nothing else when there is one, and *)
(* otherwise nothing and yields Null.                                      *)
(***************************************************************************)
C11_IfSelectsBranch ==
    \A i \in DOMAIN log :
        IsIfEnter(i) =>
            LET c == ExitOf(i + 1)
                node == log[i].node
            IN  /\ log[i + 1] = [ev |-> "enter", fn |-> "eval_expression",
                                 env |-> log[i].env, node |-> node.condition]
                /\ log[c].out.tag = "Ok" =>
                      IF ~IsFalsy(log[c].out.val)
                      THEN OnlyBranch(i, c, node.consequence)
                      ELSE IF node.alternative.some
                      THEN OnlyBranch(i, c, node.alternative.val)
                      ELSE ExitOf(i) = c + 1 /\ log[c + 1].out = Ok(ObjNull)

\* an if-expression with both branches whose condition is the integer 0 has
\* evaluated its consequence
C11_Witness ==
    \E i \in DOMAIN log :
        /\ IsIfEnter(i)
        /\ log[i].node.alternative.some
        /\ log[ExitOf(i + 1)].out = Ok(ObjInteger(0))
        /\ log[ExitOf(i + 1) + 1].node = log[i].node.consequence
        /\ log[ExitOf(i)].out = Ok(ObjInteger(1))

(***************************************************************************)
(* C12: a call writes only to environments made for it.  Between the start *)
(* of apply_function and the return of the call expression every binding   *)
(* made (parameters and lets of the body, and those of the calls the body  *)
(* makes) goes to the environment made for the call or to a later one; the *)
(* caller's environment and the captured one are older and keep all their  *)
(* bindings.                                                               *)
(***************************************************************************)
C12_CallFrame ==
    \A a \in DOMAIN log :
        IsCall(a) =>
            /\ CallerOf(a) < log[a + 1].env
            /\ log[a + 1].host < log[a + 1].env
            /\ \A s \in (a + 1)..CallExit(a) :
                  log[s].ev = "set" => log[s].env >= log[a + 1].env

\* a call has bound its parameter x, and the global x bound to 3 before the
\* call is still 3
C12_Witness ==
    /\ "x" \in DOMAIN heap[1].store
    /\ heap[1].store["x"] = ObjInteger(3)
    /\ \E a \in DOMAIN log :
          /\ IsCall(a)
          /\ LastSet(a, 1, "x") # 0
          /\ \E s \in (a + 1)..CallExit(a) :
                /\ log[s].ev = "set"
                /\ log[s].name = "x"
                /\ log[s].env = log[a + 1].env
                /\ log[s].value # ObjInteger(3)

(***************************************************************************)
(* C13: a function bound by let calls itself by its name, found through    *)
(* the environment it captured, and the recursion ends with the right      *)
(* value: every statement phi(n) evaluated yields the n-th of              *)
(* 1,1,2,3,5,8,13,21,..., and evaluate returns the value of the last one.  *)
(***************************************************************************)
RECURSIVE Fibonacci(_)
Fibonacci(n) == IF n < 2 THEN 1 ELSE Fibonacci(n - 1) + Fibonacci(n - 2)

Answers == <<1, 1, 2, 3, 5, 8, 13, 21>>

\* the number the k-th statement of the program calls phi on
NumberOf(k) == program[k].value.arguments[1].int

Expected(n) == IF n + 1 \in DOMAIN Answers THEN Answers[n + 1] ELSE Fibonacci(n)

PhiYields ==
    /\ \A n \in 0..7 : Fibonacci(n) = Answers[n + 1]
    /\ \A k \in 2..TopCount : TopExit(k).out = Ok(ObjInteger(Expected(NumberOf(k))))
    /\ \A g \in DOMAIN log :
          (log[g].ev = "get" /\ log[g].name = "phi" /\ log[g].env # 1)
             => /\ log[g].found.some
                /\ "phi" \notin DOMAIN heap[log[g].env].store
                /\ heap[log[g].env].host = 1

PhiReturns == ret = Ok(ObjInteger(Expected(NumberOf(Len(program)))))

C13_Recursion == []PhiYields /\ <>[]PhiReturns

\* evaluate has returned 21 for phi(7), which looked phi up from inside a call
C13_Witness ==
    /\ ret = Ok(ObjInteger(21))
    /\ NumberOf(Len(program)) = 7
    /\ \E g \in DOMAIN log : log[g].ev = "get" /\ log[g].name = "phi" /\ log[g].env # 1

(***************************************************************************)
(* Reading the history of the lexer.                                       *)
(***************************************************************************)
\* the chars a lexer has still to look at: cur, peek and what the iterator has
\* not yielded, without the NULs that stand for the end
RECURSIVE StripEnd(_)
StripEnd(chars) ==
    IF chars # <<>> /\ chars[Len(chars)] = NUL
    THEN StripEnd(SubSeq(chars, 1, Len(chars) - 1))
    ELSE chars

Ahead(l) == StripEnd(<<l.cur, l.peek>> \o l.input)

\* the lexer after the k-th call of next_token
LexerAfter(k) == IF k < Len(returned) THEN returned[k + 1].before ELSE lexer

\* chars without the white space it starts with
Unspaced(chars) ==
    LET n == CHOOSE n \in 0..Len(chars) :
                 /\ \A i \in 1..n : chars[i] \in {" ", "\t", "\n", "\r"}
                 /\ n < Len(chars) => chars[n + 1] \notin {" ", "\t", "\n", "\r"}
    IN  SubSeq(chars, n + 1, Len(chars))

AsciiLetters == LowerCase \cup UpperCase

\* the longest run of ASCII letters and underscores chars starts with
LetterRun(chars) ==
    LET n == CHOOSE n \in 0..Len(chars) :
                 /\ \A i \in 1..n : chars[i] \in AsciiLetters \cup {"_"}
                 /\ n < Len(chars) => chars[n + 1] \notin AsciiLetters \cup {"_"}
    IN  SubSeq(chars, 1, n)

Keywords ==
    { [word |-> <<"f", "n">>, type |-> "Function"],
      [word |-> <<"l", "e", "t">>, type |-> "Let"],
      [word |-> <<"t", "r", "u", "e">>, type |-> "True"],
      [word |-> <<"f", "a", "l", "s", "e">>, type |-> "False"],
      [word |-> <<"i", "f">>, type |-> "If"],
      [word |-> <<"e", "l", "s", "e">>, type |-> "Else"],
      [word |-> <<"r", "e", "t", "u", "r", "n">>, type |-> "Return"] }

(***************************************************************************)
(* C18: the lexer is idempotent at the end of input.  Once next_token has  *)
(* returned EOF, every later call returns EOF.                             *)
(***************************************************************************)
C18_EndIdempotent ==
    \A i \in DOMAIN returned : \A j \in DOMAIN returned :
        (i < j /\ returned[i].tok = Tok("EOF")) => returned[j].tok = Tok("EOF")

(***************************************************************************)
(* C20: when the first char after white space is an ASCII letter or an     *)
(* underscore, next_token consumes the longest run of such chars and no    *)
(* more (a digit or a letter outside ASCII ends the run and is the next    *)
(* char looked at); it returns the keyword token when the run is one of    *)
(* fn let true false if else return, and else Ident of the run.  A keyword *)
(* token or an Ident is returned in no other case.                         *)
(***************************************************************************)
C20_IdentifierRun ==
    \A k \in DOMAIN returned :
        LET chars == Unspaced(Ahead(returned[k].before))
            run == LetterRun(chars)
            tok == returned[k].tok
        IN  /\ run # <<>> =>
                  /\ Ahead(LexerAfter(k)) = SubSeq(chars, Len(run) + 1, Len(chars))
                  /\ \A w \in Keywords : run = w.word => tok = Tok(w.type)
                  /\ (\A w \in Keywords : run # w.word) => tok = TokIdent(run)
            /\ (tok.type = "Ident" \/ \E w \in Keywords : tok.type = w.type) => run # <<>>

\* the lexer has returned the keyword if for a run that a digit ended, and is
\* now looking at the digit
C20_Witness ==
    \E k \in DOMAIN returned :
        /\ returned[k].tok = Tok("If")
        /\ LexerAfter(k).cur = "7"
        /\ Unspaced(Ahead(returned[k].before)) = <<"i", "f", "7">>

(***************************************************************************)
(* Reading the history of the parser.                                      *)
(***************************************************************************)
ParserEvents(ev) == {k \in DOMAIN parser.log : parser.log[k].ev = ev}

\* an expression with every operator application in parentheses and no blank
RECURSIVE Grouped(_)
Grouped(expr) ==
    CASE expr.type = "Ident" -> expr.name
      [] expr.type = "Integer" -> to_string(expr.int)
      [] expr.type = "Prefix" -> <<"(">> \o OpChars(expr.op) \o Grouped(expr.right) \o <<")">>
      [] expr.type = "Infix" ->
            <<"(">> \o Grouped(expr.left) \o OpChars(expr.op) \o Grouped(expr.right)
            \o <<")">>
      [] expr.type = "Call" ->
            Grouped(expr.function) \o <<"(">>
            \o (IF expr.arguments = <<>> THEN <<>> ELSE Grouped(expr.arguments[1]))
            \o <<")">>

(***************************************************************************)
(* C14: an expression of integer literals, identifiers, the binary         *)
(* operators == != < > + - * /, unary ! and -, calls and parentheses is    *)
(* parsed to the tree that groups by the precedence order equality <       *)
(* relational < additive < multiplicative < unary < call, with operators   *)
(* of equal precedence grouped to the left: parse_program returns exactly  *)
(* the tree whose text, parenthesized only where that grouping needs it,   *)
(* is the source, and the rendering of what it returns is the tree fully   *)
(* parenthesized.                                                          *)
(***************************************************************************)
C14_Precedence ==
    (parsed # Off /\ parsed.ret # Running) =>
        /\ parsed.ret = Ok(<<StmtExpression(tree)>>)
        /\ Display_statement(parsed.ret.val[1]) = Grouped(tree) \o <<";">>

\* `-a * 10` has been parsed and renders as ((-a)*10);
C14_Witness ==
    /\ parsed # Off
    /\ parsed.ret.tag = "Ok"
    /\ source = <<"-", "a", " ", "*", " ", "1", "0">>
    /\ Display_statement(parsed.ret.val[1]) = <<"(", "(", "-", "a", ")", "*", "1", "0", ")", ";">>

(***************************************************************************)
(* C15: a let statement whose expression is not followed by `;` ends at    *)
(* the last token of its expression: when parse_let_statement returns, the *)
(* parser stands where it stood when the expression was parsed, so the     *)
(* token after the expression is not consumed by the let; when a `;`       *)
(* follows, the let ends at the `;`.  (The end of input after the          *)
(* expression is left aside.)                                              *)
(***************************************************************************)
C15_LetLenient ==
    parser # Off =>
        \A k \in ParserEvents("let") :
            LET e == parser.log[k]
            IN  /\ e.parsed.peek_token = Tok("Semicolon") =>
                      e.returned.cur_token = Tok("Semicolon")
                /\ e.parsed.peek_token \notin {Tok("Semicolon"), Tok("EOF")} =>
                      e.returned = e.parsed

(***************************************************************************)
(* C16: a return statement needs its `;`.  When the token after the        *)
(* returned expression is not `;`, parse_return_statement fails with       *)
(* UnexpectedToken{expected: Semicolon, got: that token} and that error is *)
(* what parse_program returns; when it is `;`, the statement is            *)
(* Return(expression).                                                     *)
(***************************************************************************)
C16_ReturnNeedsSemicolon ==
    parser # Off =>
        \A k \in ParserEvents("return") :
            LET e == parser.log[k]
            IN  IF e.parsed.peek_token = Tok("Semicolon")
                THEN e.out = Ok(StmtReturn(e.value))
                ELSE /\ e.out = Err(UnexpectedToken(Tok("Semicolon"), e.parsed.peek_token))
                     /\ parsed.ret = e.out

\* a return statement closed by `}` instead of `;` has failed the parse
C16_Witness ==
    /\ parser # Off
    /\ \E k \in ParserEvents("return") : parser.log[k].parsed.peek_token = Tok("RBrace")
    /\ parsed.ret = Err(UnexpectedToken(Tok("Semicolon"), Tok("RBrace")))

(***************************************************************************)
(* C17: a source text in which the lexer has found an Illegal token does   *)
(* not parse to a Program: parse_program does not return Ok once the       *)
(* parser has read an Illegal token.                                       *)
(***************************************************************************)
C17_IllegalIsSyntaxError ==
    (parser # Off /\ \E k \in ParserEvents("next_token") :
                         parser.log[k].token = Tok("Illegal"))
        => parsed.ret.tag # "Ok"

(***************************************************************************)
(* C19: the parser stops at the first syntax error.  When expect_peek is   *)
(* called with a token that is not the peek token, the parser does nothing *)
(* after the call: it stands where it stood at the call (same cur and peek *)
(* token, no token read from the lexer, no other expect_peek), and         *)
(* parse_program has returned UnexpectedToken{expected: the token          *)
(* required, got: the peek token}, not a Program.                          *)
(***************************************************************************)
C19_StopsAtFirstError ==
    parser # Off =>
        \A k \in ParserEvents("expect_peek") :
            LET e == parser.log[k]
            IN  e.at.peek_token # e.expected =>
                    /\ \A j \in DOMAIN parser.log :
                           j > k => parser.log[j].ev \notin {"next_token", "expect_peek"}
                    /\ At(parser) = e.at
                    /\ parsed.ret = Err(UnexpectedToken(e.expected, e.at.peek_token))

\* expect_peek has failed after a statement had been parsed
C19_Witness ==
    /\ parser # Off
    /\ parsed.statements # <<>>
    /\ \E k \in ParserEvents("expect_peek") :
           /\ parser.log[k].at.peek_token # parser.log[k].expected
           /\ parsed.ret = Err(UnexpectedToken(parser.log[k].expected,
                                               parser.log[k].at.peek_token))

(***************************************************************************)
(* The sub-expressions of a call in the history.                           *)
(***************************************************************************)
\* log[e] is eval_expression starting on a call expression
IsCallEnter(e) ==
    /\ IsEvent(e, "enter")
    /\ log[e].fn = "eval_expression"
    /\ log[e].node.type = "Call"

\* the evaluations of expressions that follow one another directly from log[i]
\* on, each by the event at which it starts
RECURSIVE Evaluations(_)
Evaluations(i) ==
    IF IsEvent(i, "enter") /\ log[i].fn = "eval_expression"
    THEN <<i>> \o Evaluations(ExitOf(i) + 1)
    ELSE <<>>

(***************************************************************************)
(* C21: in a call expression (the built-in puts aside) the callee is       *)
(* evaluated first and the arguments after it, from left to right, each at *)
(* most once; an evaluation that fails is the last one and its error is    *)
(* the error of the call, so the error of the callee is reported before    *)
(* that of an argument and the error of an argument before that of the     *)
(* arguments to its right.                                                 *)
(***************************************************************************)
C21_CalleeFirst ==
    \A e \in DOMAIN log :
        (IsCallEnter(e) /\ log[e].node.function # ExprIdent("puts")) =>
            LET order == <<log[e].node.function>> \o log[e].node.arguments
                done == Evaluations(e + 1)
            IN  /\ Len(done) >= 1
                /\ Len(done) <= Len(order)
                /\ \A k \in DOMAIN done :
                       /\ log[done[k]].node = order[k]
                       /\ log[done[k]].env = log[e].env
                       /\ log[ExitOf(done[k])].out.tag # "Ok"
                          => /\ k = Len(done)
                             /\ log[ExitOf(e)].out = log[ExitOf(done[k])].out

(***************************************************************************)
(* Blocks in the history of the parser.                                    *)
(***************************************************************************)
\* the tokens that end the loop of parse_block_statement
BlockEnds == {Tok("RBrace"), Tok("EOF")}

\* how deep in blocks the event parser.log[k] is: the blocks started up to it
\* (a first turn is one with nothing accumulated) less those returned before it
BlockLevel(k) ==
    Cardinality({j \in 1..k : /\ parser.log[j].ev = "block_turn"
                              /\ parser.log[j].blocks = <<>>})
    - Cardinality({j \in 1..(k - 1) : parser.log[j].ev = "block"})

\* the turns of the loop that come after the turn parser.log[k] in the same block;
\* the block has not returned at a turn that goes on, so they are the later
\* turns at its depth up to the first that ends a block
LaterTurns(k) ==
    {j \in ParserEvents("block_turn") :
        /\ j > k
        /\ BlockLevel(j) = BlockLevel(k)
        /\ \A i \in (k + 1)..(j - 1) :
               (parser.log[i].ev = "block" => BlockLevel(i) # BlockLevel(k))}

IsOperatorEnter(e) ==
    /\ IsEvent(e, "enter")
    /\ log[e].fn = "eval_expression"
    /\ log[e].node.type \in {"Prefix", "Infix", "If"}

(***************************************************************************)
(* C23: a ReturnValue is never held or operated on.  No binding of any     *)
(* environment, made by a let or for a parameter, holds a ReturnValue, and *)
(* no operand of a prefix or infix operator and no condition of an         *)
(* if-expression evaluates to one.                                         *)
(***************************************************************************)
C23_ReturnValueNotHeld ==
    /\ \A e \in DOMAIN heap :
           \A name \in DOMAIN heap[e].store : heap[e].store[name].kind # "ReturnValue"
    /\ \A i \in DOMAIN log :
           IsEvent(i, "set") => log[i].value.kind # "ReturnValue"
    /\ \A e \in DOMAIN log :
           IsOperatorEnter(e) =>
               LET done == Evaluations(e + 1)
               IN  \A k \in DOMAIN done :
                       log[ExitOf(done[k])].out.tag = "Ok"
                       => log[ExitOf(done[k])].out.val.kind # "ReturnValue"

(***************************************************************************)
(* C24: a call whose callee evaluates to a value that is not a function    *)
(* (an Integer, a Bool, a String or Null) does not abort the evaluation:   *)
(* the call expression yields a value or one of the four runtime errors,   *)
(* and so does Evaluator::eval.                                            *)
(***************************************************************************)
C24_NonFunctionCallee ==
    \A a \in DOMAIN log :
        ( /\ IsEvent(a, "apply")
          /\ log[a].function.kind \in {"Integer", "Bool", "String", "Null"} )
        => /\ IsExprExit(a + 1, "Call")
           /\ log[a + 1].out.tag \in {"Ok", "Err"}
           /\ ret.tag \in {"Ok", "Err"}

====
